---- MODULE Spec2Model ----
(***************************************************************************)
(* State-machine model of the cli-ai agent: the bounded session memory     *)
(* (SessionMemoryManager), the plan executor (execute_plan), the replan    *)
(* loop of main(), the repetition guard (analyze_task_progress) and the    *)
(* tool dispatcher (execute_tool).                                         *)
(***************************************************************************)
EXTENDS Integers, Sequences, FiniteSets, TLC

VARIABLES
    \* ---- SessionMemoryManager (src/src/cli_ai/memory/session_manager.py)
    recent_messages,      \* self.recent_messages
    max_recent_length,    \* self.max_recent_length
    message_count,        \* self.message_count
    mem_ret,              \* what the last operation returned
    mem_ops,              \* the operations that have changed the manager
                          \* since construction
    \* ---- execute_tool (src/executor.py)
    current_working_directory,  \* the module-level global
    tool_call,            \* the last execute_tool call: its arguments, the
                          \* directory before it, and what it did
    tool_invocations,     \* how many times a tool function has been called
    \* ---- execute_plan (src/executor.py)
    plan_len,             \* len(plan)
    plan_pc,              \* where execute_plan is: approval, step, item,
                          \* confirm, invoke, done, raised
    plan_i,               \* the step being processed, counted from 1
    plan_step,            \* plan[i]
    plan_results,
    step_outputs,
    plan_halted,
    args_to_process,      \* the invocations of the step still to make
    step_output_collector,
    history,              \* the history list execute_plan and main append to
    plan_ret,             \* what execute_plan returned
    plan_calls,           \* the execute_tool calls made, in order
    plan_replies,         \* the user's replies: to the plan-level prompt and,
                          \* per step, to the last confirmation prompt
    spinner_running,      \* spinner.running
    \* ---- main (src/main.py)
    main_pc,              \* where main() is: off (main is not running), input,
                          \* create_plan, loop, executing, replan, summarize,
                          \* crashed (an exception left main), exit
    replan_count,
    main_plan_results,    \* main's local plan_results
    main_plan_halted,     \* the truth value of main's local plan_halted
    main_calls,           \* create_plan and execute_plan calls of the request,
                          \* and whether the user declined during it
    requests,             \* user requests taken so far
    voice_input_enabled,
    \* ---- analyze_task_progress (src/src/cli_ai/utils/task_progress.py)
    actions_taken,        \* task_memory["actions_taken"]
    knowledge,            \* the keys of task_memory["knowledge"]
    progress_ret,         \* what the last analyze_task_progress call did
    \* ---- substitute_placeholders (src/executor.py)
    sub_args,             \* the args map the caller passes
    sub_outputs,          \* the step_outputs list the caller passes
    sub_ret,              \* what the last substitute_placeholders call did
    \* ---- think and reflexion (src/src/cli_ai/core/ai_engine.py)
    original_request,     \* task_memory["original_request"]
    oracle_ret,           \* the last think or reflexion call: what the LLM
                          \* call did and what the function returned
    oracle_calls,         \* think and reflexion calls made so far
    \* ---- the act-observe-reflect sub-loop that uses the session memory
    tool_execution_mode,  \* the sub-loop is running
    \* ---- WorkspaceAwareEngine (src/src/cli_ai/workspace/engine.py, core.py)
    task_count,           \* workspaces created so far; task ids are 1, 2, ...
    active_workspaces,    \* workspace_manager.active_workspaces
    storage,              \* the workspace files of storage_dir, by task id
    next_action_id,       \* the next fresh action id (uuid4)
    pending_action,       \* the action the loop was last given and has
                          \* neither run nor dropped yet
    ws_ret,               \* what the last engine operation returned
    \* ---- Spinner (src/utils.py, src/main.py) and the thread it starts
    sp_running,           \* self.running
    sp_thread,            \* self.thread: 0 for None, else the thread's number
    sp_threads,           \* the threads started so far: where each is in
                          \* _spin and the frames it has written
    sp_caller,            \* where the caller of start() and stop() is
    sp_stdout             \* the writes to sys.stdout so far

memVars == <<recent_messages, max_recent_length, message_count, mem_ret, mem_ops>>
toolVars == <<current_working_directory, tool_call, tool_invocations>>
planVars == <<plan_len, plan_pc, plan_i, plan_step, plan_results, step_outputs,
              plan_halted, args_to_process, step_output_collector, history,
              plan_ret, plan_calls, plan_replies, spinner_running>>
mainVars == <<main_pc, replan_count, main_plan_results, main_plan_halted,
              main_calls, requests, voice_input_enabled>>
progressVars == <<actions_taken, knowledge, progress_ret>>

substVars == <<sub_args, sub_outputs, sub_ret>>
oracleVars == <<original_request, oracle_ret, oracle_calls>>
modeVars == <<tool_execution_mode>>
workspaceVars == <<task_count, active_workspaces, storage, next_action_id,
                   pending_action, ws_ret>>

spinnerVars == <<sp_running, sp_thread, sp_threads, sp_caller, sp_stdout>>

vars == <<memVars, toolVars, planVars, mainVars, progressVars, substVars,
          oracleVars, modeVars, workspaceVars, spinnerVars>>

\* what the operations of one component leave alone
notMemVars == <<toolVars, planVars, mainVars, progressVars, substVars, oracleVars, modeVars,
     workspaceVars, spinnerVars>>
notToolVars == <<memVars, planVars, mainVars, progressVars, substVars, oracleVars, modeVars,
     workspaceVars, spinnerVars>>
notPlanVars == <<memVars, mainVars, progressVars, substVars, oracleVars, modeVars,
     workspaceVars, spinnerVars>>
notMainVars == <<memVars, progressVars, substVars, oracleVars, modeVars,
     workspaceVars, spinnerVars>>
notProgressVars == <<memVars, toolVars, planVars, mainVars, substVars, oracleVars, modeVars,
     workspaceVars, spinnerVars>>
notSubstVars == <<memVars, toolVars, planVars, mainVars, progressVars, oracleVars, modeVars,
     workspaceVars, spinnerVars>>
notOracleVars == <<memVars, toolVars, planVars, mainVars, substVars, modeVars,
                   workspaceVars, spinnerVars>>
notModeVars == <<memVars, toolVars, planVars, mainVars, progressVars, substVars,
                 oracleVars, workspaceVars, spinnerVars>>
notWorkspaceVars == <<memVars, toolVars, planVars, mainVars, progressVars,
                      substVars, oracleVars, modeVars, spinnerVars>>
notSpinnerVars == <<memVars, toolVars, planVars, mainVars, progressVars,
                    substVars, oracleVars, modeVars, workspaceVars>>

----------------------------------------------------------------------------
(* Bounds of the model *)

\* largest max_recent_length the constructor is given
MaxRecent == 3
\* messages added in one session before the model stops adding
MaxCount == 5
\* tool functions called before the model stops calling execute_tool
MaxToolCalls == 2
\* longest plan the oracle proposes
MaxPlan == 2
\* actions think records in one task before the model stops recording
MaxActions == 4
\* pieces of text in the longest string argument given to
\* substitute_placeholders
MaxArgLen == 3
\* longest step_outputs list given to substitute_placeholders
MaxOutputs == 2

----------------------------------------------------------------------------
(* Helpers *)

Min(a, b) == IF a < b THEN a ELSE b

\* Python's seq[:n] and seq[n:] for 0 <= n
Take(s, n) == SubSeq(s, 1, Min(n, Len(s)))
Drop(s, n) == SubSeq(s, Min(n, Len(s)) + 1, Len(s))

----------------------------------------------------------------------------
(* Values: Python strings, ints, lists and dicts, each tagged with its     *)
(* Python type.  A string is the tuple of its characters; a fixed piece of *)
(* text whose characters no operation looks into (a message template, a    *)
(* tool name, a placeholder) is written as one symbol of the tuple.        *)

Str(chars) == [t |-> "str", v |-> chars]
IntV(n) == [t |-> "int", v |-> n]
List(items) == [t |-> "list", v |-> items]
Dict(rec) == [t |-> "dict", v |-> rec]

IsStr(x) == x.t = "str"
IsList(x) == x.t = "list"
IsDict(x) == x.t = "dict"

Space == " "
Quotes == {"'", "\""}

\* str.lower(), character by character
LowerChar(c) ==
    CASE c = "Y" -> "y" [] c = "E" -> "e" [] c = "S" -> "s"
      [] c = "N" -> "n" [] c = "O" -> "o" [] OTHER -> c

Lower(s) == [k \in 1..Len(s) |-> LowerChar(s[k])]

\* str.startswith(prefix)
StartsWith(s, prefix) ==
    /\ Len(s) >= Len(prefix)
    /\ SubSeq(s, 1, Len(prefix)) = prefix

\* needle in s, for strings
Contains(s, needle) ==
    \E k \in 1..(Len(s) - Len(needle) + 1) :
        SubSeq(s, k, k + Len(needle) - 1) = needle

RECURSIVE LStrip(_)
LStrip(s) == IF Len(s) > 0 /\ s[1] = Space THEN LStrip(Tail(s)) ELSE s

RECURSIVE RStrip(_)
RStrip(s) ==
    IF Len(s) > 0 /\ s[Len(s)] = Space THEN RStrip(SubSeq(s, 1, Len(s) - 1)) ELSE s

\* str.strip()
Strip(s) == RStrip(LStrip(s))

\* shlex.split(s): whitespace-separated tokens, with quoted parts kept
\* together and the quotes removed; an unclosed quotation raises ValueError.
\* q is the open quote ("" outside quotes), cur the token being read and
\* open whether a token has been started.
RECURSIVE ShlexScan(_, _, _, _, _)
ShlexScan(s, q, cur, open, toks) ==
    IF Len(s) = 0
    THEN IF q # ""
         THEN [ok |-> FALSE, tokens |-> <<>>]
         ELSE [ok |-> TRUE, tokens |-> IF open THEN Append(toks, cur) ELSE toks]
    ELSE LET c == Head(s)
             r == Tail(s)
         IN  IF q # ""
             THEN IF c = q
                  THEN ShlexScan(r, "", cur, TRUE, toks)
                  ELSE ShlexScan(r, q, Append(cur, c), TRUE, toks)
             ELSE IF c \in Quotes
                  THEN ShlexScan(r, c, cur, TRUE, toks)
                  ELSE IF c = Space
                       THEN ShlexScan(r, "", <<>>, FALSE,
                                      IF open THEN Append(toks, cur) ELSE toks)
                       ELSE ShlexScan(r, "", Append(cur, c), TRUE, toks)

ShlexSplit(s) == ShlexScan(s, "", <<>>, FALSE, <<>>)

\* str.split(): the whitespace-separated parts
RECURSIVE SplitScan(_, _, _)
SplitScan(s, cur, parts) ==
    IF Len(s) = 0
    THEN IF Len(cur) > 0 THEN Append(parts, cur) ELSE parts
    ELSE IF Head(s) = Space
         THEN SplitScan(Tail(s), <<>>, IF Len(cur) > 0 THEN Append(parts, cur) ELSE parts)
         ELSE SplitScan(Tail(s), Append(cur, Head(s)), parts)

SplitWords(s) == SplitScan(s, <<>>, <<>>)

\* the needles the checkpoint looks for
s_error == <<"e", "r", "r", "o", "r">>
s_not_found == <<"n", "o", "t", " ", "f", "o", "u", "n", "d">>

\* the characters of a dict key
KeyChars(key) ==
    CASE key = "error" -> s_error
      [] OTHER -> <<key>>

\* sep.join(parts), for strings
RECURSIVE JoinStr(_, _)
JoinStr(parts, sep) ==
    IF Len(parts) = 0 THEN <<>>
    ELSE IF Len(parts) = 1 THEN parts[1]
    ELSE parts[1] \o sep \o JoinStr(Tail(parts), sep)

\* the keys of a dict in the order str() prints them (a dict the model
\* prints has one key)
RECURSIVE KeyOrder(_)
KeyOrder(keys) ==
    IF keys = {} THEN <<>>
    ELSE LET k == CHOOSE x \in keys : TRUE
         IN  <<k>> \o KeyOrder(keys \ {k})

\* repr(x), and str(x) for a value that is not a string
RECURSIVE Repr(_)
Repr(x) ==
    CASE x.t = "str" -> <<"'">> \o x.v \o <<"'">>
      [] x.t = "int" -> <<ToString(x.v)>>
      [] x.t = "list" ->
            <<"[">> \o JoinStr([k \in 1..Len(x.v) |-> Repr(x.v[k])], <<",", " ">>)
                    \o <<"]">>
      [] x.t = "dict" ->
            LET keys == KeyOrder(DOMAIN x.v)
            IN  <<"{">> \o JoinStr([k \in 1..Len(keys) |->
                                        <<"'">> \o KeyChars(keys[k]) \o <<"'", ":", " ">>
                                            \o Repr(x.v[keys[k]])],
                                   <<",", " ">>)
                        \o <<"}">>

\* str(x)
StrOf(x) == IF x.t = "str" THEN x.v ELSE Repr(x)

\* needle in str(x).lower()
TextHas(x, needle) == Contains(Lower(StrOf(x)), needle)

\* not x: Python's falsiness
Falsy(x) ==
    CASE x.t = "str" -> Len(x.v) = 0
      [] x.t = "int" -> x.v = 0
      [] x.t = "list" -> Len(x.v) = 0
      [] x.t = "dict" -> DOMAIN x.v = {}

----------------------------------------------------------------------------
(* Paths (posixpath) *)

Slash == "/"

\* s.split("/"): the components, empty ones included
RECURSIVE SplitSlash(_, _, _)
SplitSlash(s, cur, parts) ==
    IF Len(s) = 0
    THEN Append(parts, cur)
    ELSE IF Head(s) = Slash
         THEN SplitSlash(Tail(s), <<>>, Append(parts, cur))
         ELSE SplitSlash(Tail(s), Append(cur, Head(s)), parts)

\* "/".join(comps)
RECURSIVE JoinSlash(_)
JoinSlash(comps) ==
    IF Len(comps) = 0 THEN <<>>
    ELSE IF Len(comps) = 1 THEN comps[1]
    ELSE comps[1] \o <<Slash>> \o JoinSlash(Tail(comps))

\* os.path.isabs
IsAbs(p) == Len(p) > 0 /\ p[1] = Slash

\* os.path.join(a, p)
PathJoin(a, p) ==
    IF IsAbs(p) THEN p
    ELSE IF Len(a) = 0 \/ a[Len(a)] = Slash THEN a \o p
    ELSE a \o <<Slash>> \o p

s_dot == <<".">>
s_dotdot == <<".", ".">>

\* the loop of normpath over the components
RECURSIVE NormComps(_, _, _)
NormComps(comps, initial_slashes, new_comps) ==
    IF Len(comps) = 0 THEN new_comps
    ELSE LET comp == Head(comps)
             n == Len(new_comps)
         IN  IF comp = <<>> \/ comp = s_dot
             THEN NormComps(Tail(comps), initial_slashes, new_comps)
             ELSE IF \/ comp # s_dotdot
                     \/ (initial_slashes = 0 /\ n = 0)
                     \/ (n > 0 /\ new_comps[n] = s_dotdot)
                  THEN NormComps(Tail(comps), initial_slashes, Append(new_comps, comp))
                  ELSE IF n > 0
                       THEN NormComps(Tail(comps), initial_slashes,
                                      SubSeq(new_comps, 1, n - 1))
                       ELSE NormComps(Tail(comps), initial_slashes, new_comps)

\* os.path.normpath
NormPath(p) ==
    IF Len(p) = 0 THEN s_dot
    ELSE LET initial_slashes ==
                 IF ~IsAbs(p) THEN 0
                 ELSE IF StartsWith(p, <<Slash, Slash>>)
                         /\ ~StartsWith(p, <<Slash, Slash, Slash>>)
                      THEN 2 ELSE 1
             body == JoinSlash(NormComps(SplitSlash(p, <<>>, <<>>), initial_slashes, <<>>))
             path == [k \in 1..initial_slashes |-> Slash] \o body
         IN  IF Len(path) = 0 THEN s_dot ELSE path

\* the directories of the file system the agent runs in
Dirs == {<<"/">>, <<"/", "d">>}

\* os.path.isdir
IsDir(p) == p \in Dirs

\* os.getcwd() when the module is imported
InitialCwd == <<"/", "d">>

----------------------------------------------------------------------------
(* execute_tool (src/executor.py, src/src/cli_ai/tools/executor.py) *)

\* the keys of available_tools
AvailableTools ==
    {"run_shell_command", "read_file", "write_file", "list_directory",
     "classify_image", "select_from_list"}

\* f"Unknown tool '{tool_name}'."
UnknownToolMessage(tool_name) == Str(<<"Unknown tool '", tool_name, "'.">>)

\* f"Tool execution failed: {e}", whatever the exception says
ToolFailedMessage == Str(<<"Tool execution failed: ">>)

\* f"Changed directory to {current_working_directory}"
ChangedDirectoryMessage(cwd) == Str(<<"Changed directory to ">> \o cwd)

\* f"Directory not found: {new_path}"
DirectoryNotFoundMessage(new_path) ==
    Str(<<"Directory ">> \o s_not_found \o <<":", " ">> \o new_path)

s_cd == <<"c", "d", " ">>

\* d[k] = val on a dict
Put(d, k, val) == [x \in (DOMAIN d) \cup {k} |-> IF x = k THEN val ELSE d[x]]

\* what calling the tool function does: it returns raw, or it raises
Returns(raw) == [raises |-> FALSE, raw |-> raw]
Raises == [raises |-> TRUE, raw |-> Str(<<>>)]

\* the result of one execute_tool call: raised (an exception left the
\* function), else the returned dict's status and output; the module's
\* current_working_directory afterwards; whether the tool function was
\* called; and the caller's tool_args dict afterwards
ToolResult(raised, status, output, cwd, invoked, args) ==
    [raised |-> raised, status |-> status, output |-> output, cwd |-> cwd,
     invoked |-> invoked, args |-> args]

\* raw_output['result']['exit_code'] != 0; ok is false when the subscripts
\* raise (KeyError, TypeError)
ExitCodeNonZero(raw) ==
    IF /\ IsDict(raw)
       /\ "result" \in DOMAIN raw.v
       /\ IsDict(raw.v["result"])
       /\ "exit_code" \in DOMAIN raw.v["result"].v
    THEN [ok |-> TRUE, val |-> raw.v["result"].v["exit_code"] # IntV(0)]
    ELSE [ok |-> FALSE, val |-> FALSE]

\* "error" in raw_output; ok is false when the operand is not a container
ErrorIn(raw) ==
    CASE raw.t = "dict" -> [ok |-> TRUE, val |-> "error" \in DOMAIN raw.v]
      [] raw.t = "list" ->
            [ok |-> TRUE, val |-> \E k \in 1..Len(raw.v) : raw.v[k] = Str(s_error)]
      [] raw.t = "str" -> [ok |-> TRUE, val |-> Contains(raw.v, s_error)]
      [] OTHER -> [ok |-> FALSE, val |-> FALSE]

\* a mutant of Dispatch that looks the tool up without the membership test:
\* available_tools[tool_name] raises KeyError for an unknown name
DispatchNoLookupGuard(tool_name, args, cwd, beh) ==
    IF tool_name \in AvailableTools
    THEN IF beh.raises \/ beh.raw.t # "dict" \/ "error" \in DOMAIN beh.raw.v
         THEN ToolResult(FALSE, "Error", ToolFailedMessage, cwd, TRUE, args)
         ELSE ToolResult(FALSE, "Success", beh.raw, cwd, TRUE, args)
    ELSE ToolResult(TRUE, "", Str(<<>>), cwd, FALSE, args)

\* lines 42-61: the dispatch on available_tools, with tool_args as they are
\* after lines 15-40
Dispatch(tool_name, args, cwd, beh) ==
    IF tool_name \in AvailableTools
    THEN IF beh.raises
         THEN ToolResult(FALSE, "Error", ToolFailedMessage,
                         cwd, TRUE, args)
         ELSE LET chk == IF tool_name = "run_shell_command"
                         THEN ExitCodeNonZero(beh.raw)
                         ELSE ErrorIn(beh.raw)
              IN  IF ~chk.ok
                  THEN ToolResult(FALSE, "Error", ToolFailedMessage, cwd, TRUE, args)
                  ELSE IF chk.val
                       THEN ToolResult(FALSE, "Error", beh.raw, cwd, TRUE, args)
                       ELSE ToolResult(FALSE, "Success", beh.raw, cwd, TRUE, args)
    ELSE ToolResult(FALSE, "Error", UnknownToolMessage(tool_name),
                    cwd, FALSE, args)

\* lines 19-37: the cd branch, for the stripped command
ChangeDirectory(tool_name, args, cwd, stripped) ==
    LET parsed == ShlexSplit(Strip(Drop(stripped, 3)))
    IN  IF ~parsed.ok \/ Len(parsed.tokens) = 0
        THEN ToolResult(TRUE, "", Str(<<>>), cwd, FALSE, args)
        ELSE LET new_path == parsed.tokens[1]
                 target_path ==
                     NormPath(IF IsAbs(new_path) THEN new_path
                              ELSE PathJoin(cwd, new_path))
             IN  IF IsDir(target_path)
                 THEN ToolResult(FALSE, "Success",
                                 ChangedDirectoryMessage(target_path),
                                 target_path, FALSE, args)
                 ELSE ToolResult(FALSE, "Error",
                                 DirectoryNotFoundMessage(new_path),
                                 cwd, FALSE, args)

\* execute_tool(tool_name, tool_args), with the module's
\* current_working_directory cwd and the tool function behaving as beh
ExecuteTool(tool_name, tool_args, cwd, beh) ==
    IF tool_name = "run_shell_command"
    THEN LET command == IF "command" \in DOMAIN tool_args
                        THEN tool_args["command"] ELSE Str(<<>>)
         IN  IF command.t = "str"
             THEN IF StartsWith(Strip(command.v), s_cd)
                  THEN ChangeDirectory(tool_name, tool_args, cwd, Strip(command.v))
                  ELSE LET split == ShlexSplit(command.v)
                       IN  IF ~split.ok
                           THEN ToolResult(TRUE, "", Str(<<>>), cwd, FALSE, tool_args)
                           ELSE Dispatch(tool_name,
                                    Put(Put(tool_args, "command",
                                            List([k \in 1..Len(split.tokens) |->
                                                      Str(split.tokens[k])])),
                                        "directory", Str(cwd)),
                                    cwd, beh)
             ELSE Dispatch(tool_name, Put(tool_args, "directory", Str(cwd)), cwd, beh)
    ELSE Dispatch(tool_name, tool_args, cwd, beh)

\* src/main.py lines 74-93: the dispatch of main.py's execute_tool, which
\* tests "error" in raw_output for every tool and returns raw_output["error"]
DispatchMain(tool_name, args, cwd, beh) ==
    IF tool_name \in AvailableTools
    THEN IF beh.raises
         THEN ToolResult(FALSE, "Error", ToolFailedMessage, cwd, TRUE, args)
         ELSE LET chk == ErrorIn(beh.raw)
              IN  IF ~chk.ok
                  THEN ToolResult(FALSE, "Error", ToolFailedMessage, cwd, TRUE, args)
                  ELSE IF chk.val
                       THEN IF IsDict(beh.raw)
                            THEN ToolResult(FALSE, "Error", beh.raw.v["error"],
                                            cwd, TRUE, args)
                            ELSE ToolResult(FALSE, "Error", ToolFailedMessage,
                                            cwd, TRUE, args)
                       ELSE ToolResult(FALSE, "Success", beh.raw, cwd, TRUE, args)
    ELSE ToolResult(FALSE, "Error", UnknownToolMessage(tool_name),
                    cwd, FALSE, args)

\* src/main.py lines 51-93: main.py's execute_tool; command.strip() raises
\* AttributeError when the command is not a string
ExecuteToolMain(tool_name, tool_args, cwd, beh) ==
    IF tool_name = "run_shell_command"
    THEN LET command == IF "command" \in DOMAIN tool_args
                        THEN tool_args["command"] ELSE Str(<<>>)
         IN  IF command.t # "str"
             THEN ToolResult(TRUE, "", Str(<<>>), cwd, FALSE, tool_args)
             ELSE IF StartsWith(Strip(command.v), s_cd)
                  THEN ChangeDirectory(tool_name, tool_args, cwd, Strip(command.v))
                  ELSE DispatchMain(tool_name,
                                    Put(tool_args, "directory", Str(cwd)), cwd, beh)
    ELSE DispatchMain(tool_name, tool_args, cwd, beh)

\* the directory a tool function resolves a relative path against:
\* run_shell_command starts its subprocess with cwd=directory; the other
\* tools hand the path to os.listdir or open, which resolve it against the
\* directory of the process, and the process never changes directory
ResolveBase(tool_name, args) ==
    IF tool_name = "run_shell_command" /\ "directory" \in DOMAIN args
    THEN args["directory"].v
    ELSE InitialCwd

\* the tools a caller may name; "frobnicate" is not registered
ToolNames ==
    {"run_shell_command", "write_file", "classify_image", "list_directory",
     "frobnicate"}

\* command strings: ls, a cd to the parent, to a subdirectory (with blanks
\* around), to an absolute path, to a missing directory, and two commands
\* with an unclosed quote
c_ls == <<"l", "s">>
c_cd_up == <<"c", "d", " ", ".", ".">>
c_cd_d == <<" ", "c", "d", " ", " ", "d", " ">>
c_cd_abs == <<"c", "d", " ", "/", "d">>
c_cd_x == <<"c", "d", " ", "x">>
c_cd_bad == <<"c", "d", " ", "'", "d">>
c_ls_bad == <<"l", "s", " ", "'", "x">>

Commands == {c_ls, c_cd_up, c_cd_d, c_cd_abs, c_cd_x, c_cd_bad, c_ls_bad}

s_a_jpg == <<"a", ".", "j", "p", "g">>
s_b_jpg == <<"b", ".", "j", "p", "g">>
TwoImages == List(<<Str(s_a_jpg), Str(s_b_jpg)>>)
OneImage == List(<<Str(s_a_jpg)>>)

\* the args maps execute_tool is called with
ToolArgs(tool_name) ==
    CASE tool_name = "run_shell_command" ->
             {[command |-> Str(c)] : c \in Commands}
                 \cup {[command |-> TwoImages], <<>>}
      [] tool_name = "write_file" ->
             {[file_path |-> Str(s_a_jpg), content |-> Str(c_ls)]}
      [] tool_name = "classify_image" -> {[image_path |-> Str(s_a_jpg)]}
      [] OTHER -> {[path |-> Str(s_dot)]}

\* what a tool function can do: raise, or return a dict with a result, a
\* shell result with exit code 0 or 1, a dict with an error key, a result
\* whose text says "not found", or a bare string
RawOutputs ==
    {Dict([result |-> TwoImages]),
     Dict([result |-> Dict([exit_code |-> IntV(0)])]),
     Dict([result |-> Dict([exit_code |-> IntV(1)])]),
     Dict([error |-> Str(c_ls)]),
     Dict([result |-> Str(s_not_found)]),
     Str(s_a_jpg)}

ToolBehaviours == {Raises} \cup {Returns(raw) : raw \in RawOutputs}

NoToolCall ==
    [made |-> FALSE, tool_name |-> "", tool_args |-> <<>>, cwd |-> <<>>,
     result |-> ToolResult(FALSE, "", Str(<<>>), <<>>, FALSE, <<>>)]

ToolInit ==
    /\ current_working_directory = InitialCwd
    /\ tool_call = NoToolCall
    /\ tool_invocations = 0

\* a caller awaits execute_tool(tool_name, tool_args)
CallExecuteTool(tool_name, tool_args, beh) ==
    /\ tool_invocations < MaxToolCalls
    /\ LET r == ExecuteTool(tool_name, tool_args, current_working_directory, beh)
       IN  /\ current_working_directory' = r.cwd
           /\ tool_invocations' = tool_invocations + (IF r.invoked THEN 1 ELSE 0)
           /\ tool_call' = [made |-> TRUE, tool_name |-> tool_name,
                            tool_args |-> tool_args,
                            cwd |-> current_working_directory, result |-> r]
    /\ UNCHANGED notToolVars

ToolNext ==
    \E tool_name \in ToolNames :
        \E tool_args \in ToolArgs(tool_name) :
            \E beh \in ToolBehaviours :
                CallExecuteTool(tool_name, tool_args, beh)

----------------------------------------------------------------------------
(* substitute_placeholders (src/executor.py) *)

\* the text <output_of_step_N>, one symbol of a string, for N = 0..3
PlaceholderSyms ==
    {"<output_of_step_0>", "<output_of_step_1>", "<output_of_step_2>",
     "<output_of_step_3>"}

\* int(step_num_str)
StepNum(sym) ==
    CASE sym = "<output_of_step_0>" -> 0
      [] sym = "<output_of_step_1>" -> 1
      [] sym = "<output_of_step_2>" -> 2
      [] sym = "<output_of_step_3>" -> 3

\* the suffixes [...] the pattern takes after a placeholder, one symbol each
KeySyms == {"['result']", "['missing']"}

\* the key a suffix subscripts with
KeyOf(sym) ==
    CASE sym = "['result']" -> "result"
      [] sym = "['missing']" -> "missing"

\* the longest run of suffixes at the head of s
RECURSIVE KeyChain(_)
KeyChain(s) ==
    IF Len(s) > 0 /\ Head(s) \in KeySyms THEN <<Head(s)>> \o KeyChain(Tail(s)) ELSE <<>>

\* re.findall over arg_value: the full placeholder expressions, in order
RECURSIVE FindMatches(_)
FindMatches(s) ==
    IF Len(s) = 0 THEN <<>>
    ELSE IF Head(s) \in PlaceholderSyms
         THEN LET chain == KeyChain(Tail(s))
              IN  <<[full |-> <<Head(s)>> \o chain, n |-> StepNum(Head(s)),
                     keys |-> [k \in 1..Len(chain) |-> KeyOf(chain[k])]]>>
                      \o FindMatches(Drop(Tail(s), Len(chain)))
         ELSE FindMatches(Tail(s))

\* eval of prev_output[k1][k2]...: ok is false when a subscript raises
RECURSIVE EvalChain(_, _)
EvalChain(x, keys) ==
    IF Len(keys) = 0 THEN [ok |-> TRUE, val |-> x]
    ELSE IF x.t = "dict" /\ Head(keys) \in DOMAIN x.v
         THEN EvalChain(x.v[Head(keys)], Tail(keys))
         ELSE [ok |-> FALSE, val |-> x]

\* s.replace(old, new), for a non-empty old
RECURSIVE Replace(_, _, _)
Replace(s, old, new) ==
    IF Len(s) < Len(old) THEN s
    ELSE IF SubSeq(s, 1, Len(old)) = old
         THEN new \o Replace(Drop(s, Len(old)), old, new)
         ELSE <<Head(s)>> \o Replace(Tail(s), old, new)

\* ' '.join(f'"{item}"' for item in evaluated_value), or str(evaluated_value)
ReplacementStr(x) ==
    IF x.t = "list"
    THEN JoinStr([k \in 1..Len(x.v) |-> <<"\"">> \o StrOf(x.v[k]) \o <<"\"">>], <<Space>>)
    ELSE StrOf(x)

\* the body of the loop over the matches: cur is current_args[arg_name]
RECURSIVE SubstituteMatches(_, _, _, _)
SubstituteMatches(matches, arg_value, cur, outputs) ==
    IF Len(matches) = 0 THEN cur
    ELSE LET m == Head(matches)
             rest == Tail(matches)
         IN  IF 0 < m.n /\ m.n <= Len(outputs)
             THEN LET e == EvalChain(outputs[m.n], m.keys)
                  IN  IF ~e.ok
                      THEN SubstituteMatches(rest, arg_value, arg_value, outputs)
                      ELSE LET evaluated_value ==
                                   IF e.val.t = "dict" /\ "result" \in DOMAIN e.val.v
                                   THEN e.val.v["result"] ELSE e.val
                           IN  IF m.full = arg_value.v
                               THEN SubstituteMatches(rest, arg_value, evaluated_value,
                                                      outputs)
                               ELSE SubstituteMatches(rest, arg_value,
                                        Str(Replace(arg_value.v, m.full,
                                                    ReplacementStr(evaluated_value))),
                                        outputs)
             ELSE SubstituteMatches(rest, arg_value, cur, outputs)

\* a mutant of JsonCopy that turns every string into a one-item list
JsonCopyWrapped(x) == IF x.t = "str" THEN List(<<x>>) ELSE x

\* json.loads(json.dumps(x)): the value rebuilt from its JSON text
RECURSIVE JsonCopy(_)
JsonCopy(x) ==
    CASE x.t = "list" -> List([k \in 1..Len(x.v) |-> JsonCopy(x.v[k])])
      [] x.t = "dict" -> Dict([k \in DOMAIN x.v |-> JsonCopy(x.v[k])])
      [] OTHER -> x

\* the text "<output_of_step_" with no number after it, one symbol
s_placeholder_prefix == "<output_of_step_"

\* "<output_of_step_" in arg_value
HasPlaceholderPrefix(s) ==
    \E k \in 1..Len(s) : s[k] \in PlaceholderSyms \cup {s_placeholder_prefix}

\* substitute_placeholders(args, step_outputs): the map it returns; it
\* writes to current_args, its copy of args, only
SubstitutePlaceholders(args, outputs) ==
    LET current_args == [name \in DOMAIN args |-> JsonCopy(args[name])]
    IN  [name \in DOMAIN current_args |->
            LET arg_value == current_args[name]
            IN  IF arg_value.t = "str" /\ HasPlaceholderPrefix(arg_value.v)
                THEN SubstituteMatches(FindMatches(arg_value.v), arg_value,
                                       arg_value, outputs)
                ELSE arg_value]

\* the pieces a string argument is made of
ArgPieces ==
    {"ls", Space, "<output_of_step_0>", "<output_of_step_1>",
     "<output_of_step_2>", "['result']", "['missing']", s_placeholder_prefix}

\* the strings of at most n pieces
ArgStrings(n) == UNION {[1..k -> ArgPieces] : k \in 0..n}

\* what a step can have put into step_outputs
StepOutputValues ==
    {Dict([result |-> TwoImages]),
     Dict([result |-> Dict([result |-> Str(s_a_jpg), exit_code |-> IntV(0)])]),
     Str(s_a_jpg)}

StepOutputLists == UNION {[1..k -> StepOutputValues] : k \in 0..MaxOutputs}

\* the args maps of the callers: a string argument next to one that is not
\* a string
SubstArgs ==
    {[command |-> Str(s), paths |-> v] :
        s \in ArgStrings(MaxArgLen),
        v \in {IntV(1), List(<<Str(<<"<output_of_step_1>">>)>>)}}

NoSubstReturn == [called |-> FALSE, val |-> <<>>]

SubstIdle ==
    /\ sub_args = <<>>
    /\ sub_outputs = <<>>
    /\ sub_ret = NoSubstReturn

\* a caller about to call substitute_placeholders(args, step_outputs)
SubstInit ==
    /\ sub_args \in SubstArgs
    /\ sub_outputs \in StepOutputLists
    /\ sub_ret = NoSubstReturn

\* lines 63-108: the call; args and step_outputs are read, never written
Substitute ==
    /\ ~sub_ret.called
    /\ sub_ret' = [called |-> TRUE,
                   val |-> SubstitutePlaceholders(sub_args, sub_outputs)]
    /\ UNCHANGED <<sub_args, sub_outputs, notSubstVars>>

\* the caller drops the result and calls again
SubstAgain ==
    /\ sub_ret.called
    /\ sub_ret' = NoSubstReturn
    /\ UNCHANGED <<sub_args, sub_outputs, notSubstVars>>

SubstNext == Substitute \/ SubstAgain

----------------------------------------------------------------------------
(* execute_plan (src/executor.py) *)

\* what the user types at a prompt
Replies == {<<>>, <<"y", "e", "s">>, <<"Y", "E", "S">>, <<"n", "o">>, <<"y">>}

s_yes == <<"y", "e", "s">>

\* a mutant of Accepts that takes "y" for yes as well
AcceptsY(reply) == Lower(reply) \in {<<>>, s_yes, <<"y">>}

\* approval == "" or approval == "yes", for the lower-cased reply
Accepts(reply) == Lower(reply) = <<>> \/ Lower(reply) = s_yes

\* the args of a step, for each tool the oracle plans with
StepArgs(tool) ==
    CASE tool = "run_shell_command" ->
             {[command |-> Str(c_ls)], [command |-> Str(c_ls_bad)],
              [command |-> Str(<<"<output_of_step_1>">>)]}
      [] tool = "classify_image" ->
             {[image_path |-> Str(s_a_jpg)], [image_path |-> TwoImages],
              [image_path |-> OneImage],
              [image_path |-> Str(<<"<output_of_step_1>", "['result']">>)]}
      [] tool = "write_file" ->
             {[file_path |-> Str(s_a_jpg), content |-> Str(c_ls)]}
      [] OTHER -> {[path |-> Str(s_dot)]}

PlanTools == {"run_shell_command", "classify_image", "write_file", "frobnicate"}

\* a step of a plan: is_critical is true, false or absent from the dict,
\* checkpoint says whether the step has a "checkpoint" key
Step(tool, args, is_critical, checkpoint) ==
    [tool |-> tool, args |-> args, is_critical |-> is_critical,
     checkpoint |-> checkpoint]

StepSet ==
    {Step(tool, args, c, k) :
        tool \in PlanTools, args \in UNION {StepArgs(x) : x \in PlanTools},
        c \in {"true", "false", "absent"}, k \in BOOLEAN}

Steps == {st \in StepSet : st.args \in StepArgs(st.tool)}

NoStep == Step("", <<>>, "absent", FALSE)

\* step.get("is_critical"), as a condition
IsCritical(step) == step.is_critical = "true"

\* what the tool function of a step can do
PlanBehaviours(tool) ==
    IF tool = "run_shell_command"
    THEN {Raises,
          Returns(Dict([result |-> Dict([exit_code |-> IntV(0)])])),
          Returns(Dict([result |-> Dict([exit_code |-> IntV(1)])]))}
    ELSE {Raises,
          Returns(Dict([result |-> TwoImages])),
          Returns(Dict([result |-> Str(s_not_found)])),
          Returns(Dict([error |-> Str(c_ls)]))}

StepResult(tool, status, output) == [tool |-> tool, status |-> status, output |-> output]

s_aborted == Str(<<"User aborted critical step.">>)

\* which execute_plan runs: the one of src/main.py when main() runs, else
\* the one of src/executor.py
PlanVariant == IF main_pc = "off" THEN "executor" ELSE "main"

\* the value execute_plan returns: the tuple (plan_results, plan_halted) in
\* src/executor.py (lines 130, 236), the bare list plan_results in
\* src/main.py (lines 195, 306)
PlanReturnValue(results, halted) ==
    IF PlanVariant = "main"
    THEN [returned |-> TRUE, is_pair |-> FALSE, results |-> results,
          halted |-> FALSE]
    ELSE [returned |-> TRUE, is_pair |-> TRUE, results |-> results,
          halted |-> halted]

NoPlanReturn ==
    [returned |-> FALSE, is_pair |-> FALSE, results |-> <<>>, halted |-> FALSE]

\* what the user answered so far: to the plan-level prompt, to the latest
\* confirmation prompt of each step, and how many tool invocations had been
\* made when a confirmation was declined (-1: none was declined)
\* raw is the text last typed at a prompt
NoReplies == [plan |-> "none", step |-> <<>>, declined_calls |-> -1, raw |-> <<"-">>]

\* lines 180-186: plan_results once the user declines a critical step
AbortedResultsDropped(results, step) == results

AbortedResults(results, step) ==
    Append(results, StepResult(step.tool, "Aborted", s_aborted))

\* lines 196-203: plan_results once execute_tool returns status Error
ResultsAfterErrorDropped(results, step, output) == results

ResultsAfterError(results, step, output) ==
    Append(results, StepResult(step.tool, "Error", output))

\* the locals of execute_plan(plan, history) on entry, at position pc
PlanState(len, pc) ==
    /\ plan_len = len
    /\ plan_pc = pc
    /\ plan_i = 1
    /\ plan_step = NoStep
    /\ plan_results = <<>>
    /\ step_outputs = <<>>
    /\ plan_halted = FALSE
    /\ args_to_process = <<>>
    /\ step_output_collector = <<>>
    /\ plan_ret = NoPlanReturn
    /\ plan_calls = <<>>
    /\ plan_replies = NoReplies
    /\ spinner_running = FALSE

PlanInit ==
    /\ \E len \in 1..MaxPlan : PlanState(len, "approval")
    /\ history = <<>>

\* lines 126-130: the plan-level approval
PlanApprove(reply) ==
    /\ plan_pc = "approval"
    /\ IF Accepts(reply)
       THEN /\ plan_pc' = "step"
            /\ plan_replies' = [plan_replies EXCEPT !.plan = "yes", !.raw = reply]
            /\ UNCHANGED <<history, plan_ret>>
       ELSE /\ plan_pc' = "done"
            /\ plan_replies' = [plan_replies EXCEPT !.plan = "no", !.raw = reply]
            /\ history' = Append(history, "Agent: Plan aborted by user.")
            /\ plan_ret' = PlanReturnValue(plan_results, TRUE)
    /\ UNCHANGED <<plan_len, plan_i, plan_step, plan_results, step_outputs,
                   plan_halted, args_to_process, step_output_collector,
                   plan_calls, toolVars, spinner_running,
                   notPlanVars>>

\* lines 143-169: the invocations a step fans out into; ok is false when
\* current_args['command'].split() raises AttributeError
ArgsToProcess(step, current_args) ==
    IF step.tool = "run_shell_command" /\ "command" \in DOMAIN current_args
    THEN IF current_args["command"].t # "str"
         THEN [ok |-> FALSE, list |-> <<>>]
         ELSE [ok |-> TRUE, list |-> <<current_args>>]
    ELSE IF /\ step.tool = "classify_image"
            /\ "image_path" \in DOMAIN current_args
            /\ current_args["image_path"].t = "list"
         THEN [ok |-> TRUE,
               list |-> [k \in 1..Len(current_args["image_path"].v) |->
                            [current_args EXCEPT
                                !["image_path"] = current_args["image_path"].v[k]]]]
         ELSE [ok |-> TRUE, list |-> <<current_args>>]

\* lines 132-169: the top of the loop over the steps, for the step the
\* oracle put at position i
PlanBeginStep(step) ==
    /\ plan_pc = "step"
    /\ ~plan_halted
    /\ plan_i <= plan_len
    /\ LET a == ArgsToProcess(step, SubstitutePlaceholders(step.args, step_outputs))
       IN  /\ plan_step' = step
           /\ plan_pc' = IF a.ok THEN "item" ELSE "raised"
           /\ args_to_process' = a.list
           /\ step_output_collector' = <<>>
    /\ UNCHANGED <<plan_len, plan_i, plan_results, step_outputs, plan_halted,
                   history, plan_ret, plan_calls, plan_replies, toolVars,
                   spinner_running, notPlanVars>>

\* lines 133-134 and 236: the loop ends, or breaks on plan_halted
PlanReturn ==
    /\ plan_pc = "step"
    /\ plan_halted \/ plan_i > plan_len
    /\ plan_pc' = "done"
    /\ plan_ret' = PlanReturnValue(plan_results, plan_halted)
    /\ UNCHANGED <<plan_len, plan_i, plan_step, plan_results, step_outputs,
                   plan_halted, args_to_process, step_output_collector, history,
                   plan_calls, plan_replies, toolVars, spinner_running,
                   notPlanVars>>

\* lines 172-175: the next invocation of the step
PlanNextItem ==
    /\ plan_pc = "item"
    /\ Len(args_to_process) > 0
    /\ plan_pc' = IF IsCritical(plan_step) THEN "confirm" ELSE "invoke"
    /\ UNCHANGED <<plan_len, plan_i, plan_step, plan_results, step_outputs,
                   plan_halted, args_to_process, step_output_collector, history,
                   plan_ret, plan_calls, plan_replies, toolVars, spinner_running,
                   notPlanVars>>

\* lines 176-189: the confirmation of a critical step
PlanConfirm(reply) ==
    /\ plan_pc = "confirm"
    /\ plan_replies' =
           [plan_replies EXCEPT
               !.step = Put(plan_replies.step, plan_i,
                            IF Accepts(reply) THEN "yes" ELSE "no"),
               !.declined_calls = IF Accepts(reply) THEN @ ELSE Len(plan_calls),
               !.raw = reply]
    /\ IF Accepts(reply)
       THEN /\ plan_pc' = "invoke"
            /\ UNCHANGED <<plan_results, plan_halted, plan_step>>
       ELSE /\ plan_results' = AbortedResults(plan_results, plan_step)
            /\ plan_halted' = TRUE
            /\ plan_pc' = "step"
            /\ plan_step' = NoStep
    /\ UNCHANGED <<plan_len, plan_i, step_outputs, args_to_process,
                   step_output_collector, history, plan_ret, plan_calls,
                   toolVars, spinner_running,
                   notPlanVars>>

\* the record of one execute_tool call made by execute_plan
PlanCall(i, step, single_args, confirmed, r) ==
    [step |-> i, tool |-> step.tool, args |-> single_args, confirmed |-> confirmed,
     raised |-> r.raised, status |-> r.status, invoked |-> r.invoked,
     output |-> r.output]

\* lines 191-208: the tool invocation
PlanInvoke(beh) ==
    /\ plan_pc = "invoke"
    /\ LET single_args == Head(args_to_process)
           r == IF PlanVariant = "main"
                THEN ExecuteToolMain(plan_step.tool, single_args,
                                     current_working_directory, beh)
                ELSE ExecuteTool(plan_step.tool, single_args,
                                 current_working_directory, beh)
           confirmed == /\ plan_i \in DOMAIN plan_replies.step
                        /\ plan_replies.step[plan_i] = "yes"
       IN  /\ current_working_directory' = r.cwd
           /\ UNCHANGED <<tool_call, tool_invocations>>
           /\ plan_calls' = Append(plan_calls,
                                   PlanCall(plan_i, plan_step, single_args, confirmed, r))
           /\ spinner_running' = r.raised
           /\ IF r.raised
              THEN /\ plan_pc' = "raised"
                   /\ UNCHANGED <<plan_results, plan_halted, plan_step,
                                  args_to_process, step_output_collector>>
              ELSE IF r.status = "Error"
                   THEN /\ plan_results' =
                               ResultsAfterError(plan_results, plan_step, r.output)
                        /\ plan_halted' = TRUE
                        /\ plan_pc' = "step"
                        /\ plan_step' = NoStep
                        /\ UNCHANGED <<args_to_process, step_output_collector>>
                   ELSE /\ step_output_collector' =
                               Append(step_output_collector, r.output)
                        /\ args_to_process' = Tail(args_to_process)
                        /\ plan_pc' = "item"
                        /\ UNCHANGED <<plan_results, plan_halted, plan_step>>
    /\ UNCHANGED <<plan_len, plan_i, step_outputs, history, plan_ret,
                   plan_replies, notPlanVars>>

\* lines 226-230: the checkpoint's test of the step's output
CheckpointFails(final_output) ==
    \/ Falsy(final_output)
    \/ TextHas(final_output, s_error)
    \/ TextHas(final_output, s_not_found)

\* lines 213-217: the consolidated output of a step
FinalOutput(collector) ==
    IF Len(collector) = 1 THEN collector[1] ELSE List(collector)

\* a mutant of StepOutputsAfter that forgets the step's output
StepOutputsAfterDropped(outputs, final_output) == outputs

\* line 219: step_outputs.append(final_output)
StepOutputsAfter(outputs, final_output) == Append(outputs, final_output)

\* lines 210-235: every invocation of the step succeeded
PlanFinishStep ==
    /\ plan_pc = "item"
    /\ Len(args_to_process) = 0
    /\ LET final_output == FinalOutput(step_output_collector)
           results == Append(plan_results,
                             StepResult(plan_step.tool, "Success", final_output))
       IN  /\ step_outputs' = StepOutputsAfter(step_outputs, final_output)
           /\ plan_results' = results
           /\ IF plan_step.checkpoint /\ CheckpointFails(final_output)
              THEN /\ plan_pc' = "done"
                   /\ plan_ret' = PlanReturnValue(results, plan_halted)
                   /\ UNCHANGED plan_i
              ELSE /\ plan_pc' = "step"
                   /\ plan_i' = plan_i + 1
                   /\ UNCHANGED plan_ret
    /\ plan_step' = NoStep
    /\ step_output_collector' = <<>>
    /\ UNCHANGED <<plan_len, plan_halted, args_to_process, history, plan_calls,
                   plan_replies, toolVars, spinner_running,
                   notPlanVars>>

PlanNext ==
    \/ \E reply \in Replies : PlanApprove(reply)
    \/ \E step \in Steps : PlanBeginStep(step)
    \/ PlanReturn
    \/ PlanNextItem
    \/ \E reply \in Replies : PlanConfirm(reply)
    \/ \E beh \in PlanBehaviours(plan_step.tool) : PlanInvoke(beh)
    \/ PlanFinishStep

\* execute_plan at rest, while another component is exercised
PlanIdle ==
    /\ PlanState(0, "done")
    /\ history = <<>>

----------------------------------------------------------------------------
(* main (src/main.py) *)

\* requests the user makes before the model stops taking input
MaxRequests == 1

\* line 348
MAX_REPLAN_ATTEMPTS == 2

\* what the user types at the "> " prompt
UserInputs ==
    {<<>>, <<"E", "x", "i", "t">>, <<"/", "v", "o", "i", "c", "e">>, c_ls}

s_exit == <<"e", "x", "i", "t">>
s_voice == <<"/", "v", "o", "i", "c", "e">>

\* the key by which main() reads the dict create_plan returns: "text",
\* "save_to_memory", "plan", or none of them
Decisions == {"text", "save_to_memory", "plan", "other"}

NoCalls == [create_plan |-> 0, execute_plan |-> 0, declined |-> FALSE]

\* the user declined the plan or one of its critical steps
Declined(replies) == replies.plan = "no" \/ replies.declined_calls >= 0

\* the shape of main's local plan_results: a list of results, or one result
\* dict (of the keys tool, status, output); empty before execute_plan returns
NoResults == [kind |-> "list", len |-> 0]

\* main() at rest, while another component is exercised
MainIdle ==
    /\ main_pc = "off"
    /\ replan_count = 0
    /\ main_plan_results = NoResults
    /\ main_plan_halted = FALSE
    /\ main_calls = NoCalls
    /\ requests = 0
    /\ voice_input_enabled = FALSE

\* lines 309-316: main() before its first prompt
MainInit ==
    /\ main_pc = "input"
    /\ replan_count = 0
    /\ main_plan_results = NoResults
    /\ main_plan_halted = FALSE
    /\ main_calls = NoCalls
    /\ requests = 0
    /\ voice_input_enabled = FALSE
    /\ PlanState(0, "done")
    /\ history = <<>>

\* lines 318-329: one turn of the prompt
MainInput(user_input) ==
    /\ main_pc = "input"
    /\ IF user_input = <<>>
       THEN UNCHANGED <<main_pc, voice_input_enabled, history, requests, main_calls>>
       ELSE IF Lower(user_input) = s_exit
            THEN /\ main_pc' = "exit"
                 /\ UNCHANGED <<voice_input_enabled, history, requests, main_calls>>
            ELSE IF Lower(user_input) = s_voice
                 THEN /\ voice_input_enabled' = ~voice_input_enabled
                      /\ UNCHANGED <<main_pc, history, requests, main_calls>>
                 ELSE /\ requests < MaxRequests
                      /\ requests' = requests + 1
                      /\ history' = Append(history, "User: user_input")
                      /\ main_calls' = NoCalls
                      /\ main_pc' = "create_plan"
                      /\ UNCHANGED voice_input_enabled
    /\ UNCHANGED <<replan_count, main_plan_results, main_plan_halted,
                   plan_len, plan_pc, plan_i, plan_step, plan_results,
                   step_outputs, plan_halted, args_to_process,
                   step_output_collector, plan_ret, plan_calls, plan_replies,
                   spinner_running, toolVars, notMainVars>>

\* lines 331-349 and 399-402: the first create_plan call of a request and
\* the branch on the decision's key
MainCreatePlan(decision) ==
    /\ main_pc = "create_plan"
    /\ main_calls' = [main_calls EXCEPT !.create_plan = @ + 1]
    /\ CASE decision = "text" ->
                /\ history' = Append(history, "Agent: ai_response")
                /\ main_pc' = "input"
                /\ UNCHANGED replan_count
           [] decision = "save_to_memory" ->
                /\ main_pc' = "input"
                /\ UNCHANGED <<history, replan_count>>
           [] decision = "plan" ->
                /\ replan_count' = 0
                /\ main_pc' = "loop"
                /\ UNCHANGED history
           [] OTHER ->
                /\ history' = Append(history, "Agent: Error: error_msg")
                /\ main_pc' = "input"
                /\ UNCHANGED replan_count
    /\ UNCHANGED <<main_plan_results, main_plan_halted, requests,
                   voice_input_enabled,
                   plan_len, plan_pc, plan_i, plan_step, plan_results,
                   step_outputs, plan_halted, args_to_process,
                   step_output_collector, plan_ret, plan_calls, plan_replies,
                   spinner_running, toolVars, notMainVars>>

\* lines 351-353: the top of the replan loop and the call of
\* execute_plan(current_plan, spinner, history), for a plan of len steps
MainLoop(len) ==
    /\ main_pc = "loop"
    /\ IF replan_count <= MAX_REPLAN_ATTEMPTS
       THEN /\ main_pc' = "executing"
            /\ main_calls' = [main_calls EXCEPT !.execute_plan = @ + 1]
            /\ plan_len' = len
            /\ plan_pc' = "approval"
            /\ plan_i' = 1
            /\ plan_step' = NoStep
            /\ plan_results' = <<>>
            /\ step_outputs' = <<>>
            /\ plan_halted' = FALSE
            /\ args_to_process' = <<>>
            /\ step_output_collector' = <<>>
            /\ plan_ret' = NoPlanReturn
            /\ plan_calls' = <<>>
            /\ plan_replies' = NoReplies
       ELSE /\ main_pc' = "summarize"
            /\ UNCHANGED <<main_calls, plan_len, plan_pc, plan_i, plan_step,
                           plan_results, step_outputs, plan_halted,
                           args_to_process, step_output_collector, plan_ret,
                           plan_calls, plan_replies>>
    /\ UNCHANGED <<replan_count, main_plan_results, main_plan_halted, requests,
                   voice_input_enabled, history, spinner_running, toolVars,
                   notMainVars>>

\* line 353: plan_results, plan_halted = <what execute_plan returned>; ok is
\* false when the unpacking raises ValueError. A list of two results unpacks
\* into its two dicts, the second of which is true as a condition.
Unpack(ret) ==
    IF ret.is_pair
    THEN [ok |-> TRUE, first |-> [kind |-> "list", len |-> Len(ret.results)],
          second |-> ret.halted]
    ELSE IF Len(ret.results) = 2
         THEN [ok |-> TRUE, first |-> [kind |-> "dict", len |-> 3],
               second |-> TRUE]
         ELSE [ok |-> FALSE, first |-> NoResults, second |-> FALSE]

\* lines 353-369: execute_plan has returned or raised; unpack what it
\* returned and count the failure
MainAfterPlan ==
    /\ main_pc = "executing"
    /\ plan_pc \in {"done", "raised"}
    /\ LET u == Unpack(plan_ret)
       IN  IF plan_pc = "raised" \/ ~u.ok
           THEN /\ main_pc' = "crashed"
                /\ UNCHANGED <<main_plan_results, main_plan_halted,
                               replan_count, history, plan_len, plan_pc,
                               plan_i, plan_step, plan_results, step_outputs,
                               plan_halted, args_to_process,
                               step_output_collector, plan_ret, plan_calls,
                               plan_replies>>
           ELSE /\ main_plan_results' = u.first
                /\ main_plan_halted' = u.second
                /\ IF ~u.second
                   THEN /\ main_pc' = "summarize"
                        /\ UNCHANGED <<replan_count, history>>
                   ELSE /\ replan_count' = replan_count + 1
                        /\ IF replan_count + 1 > MAX_REPLAN_ATTEMPTS
                           THEN /\ history' = Append(history,
                                       "Agent: Failed to complete task after multiple replanning attempts.")
                                /\ main_pc' = "summarize"
                           ELSE /\ history' = Append(history,
                                       "Agent: Previous plan failed.")
                                /\ main_pc' = "replan"
                /\ plan_len' = 0
                /\ plan_pc' = "done"
                /\ plan_i' = 1
                /\ plan_step' = NoStep
                /\ plan_results' = <<>>
                /\ step_outputs' = <<>>
                /\ plan_halted' = FALSE
                /\ args_to_process' = <<>>
                /\ step_output_collector' = <<>>
                /\ plan_ret' = NoPlanReturn
                /\ plan_calls' = <<>>
                /\ plan_replies' = NoReplies
    /\ main_calls' = [main_calls EXCEPT !.declined = @ \/ Declined(plan_replies)]
    /\ UNCHANGED <<requests, voice_input_enabled, spinner_running,
                   toolVars, notMainVars>>

\* lines 371-389: the replanning create_plan call
MainReplan(decision) ==
    /\ main_pc = "replan"
    /\ main_calls' = [main_calls EXCEPT !.create_plan = @ + 1]
    /\ CASE decision = "plan" ->
                /\ main_pc' = "loop"
                /\ UNCHANGED <<history, main_plan_halted>>
           [] decision = "text" ->
                /\ history' = Append(history, "Agent: ai_response")
                /\ main_plan_halted' = FALSE
                /\ main_pc' = "summarize"
           [] OTHER ->
                /\ history' = Append(history,
                       "Agent: Replanning failed to produce a valid plan.")
                /\ main_pc' = "summarize"
                /\ UNCHANGED main_plan_halted
    /\ UNCHANGED <<replan_count, main_plan_results, requests,
                   voice_input_enabled,
                   plan_len, plan_pc, plan_i, plan_step, plan_results,
                   step_outputs, plan_halted, args_to_process,
                   step_output_collector, plan_ret, plan_calls, plan_replies,
                   spinner_running, toolVars, notMainVars>>

\* lines 391-397: the summary of the last attempt ends the request
MainSummarize ==
    /\ main_pc = "summarize"
    /\ history' = Append(history, "Agent: final_summary")
    /\ main_pc' = "input"
    /\ UNCHANGED <<replan_count, main_plan_results, main_plan_halted,
                   main_calls, requests, voice_input_enabled,
                   plan_len, plan_pc, plan_i, plan_step, plan_results,
                   step_outputs, plan_halted, args_to_process,
                   step_output_collector, plan_ret, plan_calls, plan_replies,
                   spinner_running, toolVars, notMainVars>>

MainNext ==
    \/ \E user_input \in UserInputs : MainInput(user_input)
    \/ \E decision \in Decisions : MainCreatePlan(decision)
    \/ \E len \in 0..MaxPlan : MainLoop(len)
    \/ \E reply \in Replies : PlanApprove(reply)
    \/ \E step \in Steps : PlanBeginStep(step)
    \/ PlanReturn
    \/ PlanNextItem
    \/ \E reply \in Replies : PlanConfirm(reply)
    \/ \E beh \in PlanBehaviours(plan_step.tool) : PlanInvoke(beh)
    \/ PlanFinishStep
    \/ MainAfterPlan
    \/ \E decision \in Decisions : MainReplan(decision)
    \/ MainSummarize

----------------------------------------------------------------------------
(* SessionMemoryManager *)

Roles == {"user", "assistant", "system"}

\* role arguments a legacy message can carry: known names, an unknown name,
\* and "absent" for a message dict without a role key
LegacyRoles == {"AI", "ai", "user", "assistant", "system", "tool", "absent"}

\* a mutant of Message that numbers every message 0
MessageUnnumbered(role, id, content) ==
    [role |-> role, message_id |-> 0, content |-> content]

\* the message dict the add operations build: "message_id": self.message_count
Message(role, id, content) == [role |-> role, message_id |-> id, content |-> content]

\* the contents a caller passes: user_msg of add_exchange, its ai_msg, and
\* the content of add_single_message
Contents == {<<"a">>, <<"b">>}
AiContents == {<<"c">>}
SingleContents == {<<"a">>}

\* the contents add_legacy_message is given: a string, or a dict that has
\* a thought key and no observation key
LegacyContents == {[kind |-> "str", text |-> <<"a">>], [kind |-> "thought", text |-> <<"a">>]}

\* _normalize_content (lines 151-178)
NormalizeContent(content) ==
    IF content.kind = "str" THEN content.text ELSE <<"Thought: ">> \o content.text

\* _normalize_role: role_mapping.get(role, "assistant"); message.get("role",
\* "assistant") has already replaced an absent role by "assistant"
NormalizeRole(role) ==
    CASE role = "AI" -> "assistant"
      [] role = "ai" -> "assistant"
      [] role = "user" -> "user"
      [] role = "assistant" -> "assistant"
      [] role = "system" -> "system"
      [] OTHER -> "assistant"

\* the value an add operation returns: None, or a list of messages
RetNone(op) == [op |-> op, isNone |-> TRUE, val |-> <<>>]
RetList(op, msgs) == [op |-> op, isNone |-> FALSE, val |-> msgs]

\* a mutant of EnsureConversationBoundary that drops the message it pops
EnsureConversationBoundaryLost(overflow, recent) ==
    IF Len(overflow) = 0
    THEN [overflow |-> overflow, recent |-> recent]
    ELSE IF overflow[Len(overflow)].role = "user"
         THEN [overflow |-> SubSeq(overflow, 1, Len(overflow) - 1), recent |-> recent]
         ELSE [overflow |-> overflow, recent |-> recent]

\* _ensure_conversation_boundary(overflow_messages), given the buffer as it
\* is after the slice; yields the returned block and the buffer afterwards
EnsureConversationBoundary(overflow, recent) ==
    IF Len(overflow) = 0
    THEN [overflow |-> overflow, recent |-> recent]
    ELSE IF overflow[Len(overflow)].role = "user"
         THEN [overflow |-> SubSeq(overflow, 1, Len(overflow) - 1),
               recent |-> <<overflow[Len(overflow)]>> \o recent]
         ELSE [overflow |-> overflow, recent |-> recent]

\* a mutant of ExchangeOverflowCount that forgets to round up to a pair
ExchangeOverflowCountNoRound(len, max) == Min(len - max, len)

\* add_exchange's overflow_count, for len(recent_messages) = len > max
ExchangeOverflowCount(len, max) ==
    LET c == len - max
        even == IF c % 2 # 0 THEN c + 1 ELSE c
    IN  Min(even, len)

\* add_exchange(user_msg, ai_msg)
AddExchange(user_msg, ai_msg) ==
    /\ message_count + 2 <= MaxCount
    /\ LET added == recent_messages \o
                    <<Message("user", message_count, user_msg),
                      Message("assistant", message_count + 1, ai_msg)>>
       IN  /\ message_count' = message_count + 2
           /\ IF Len(added) > max_recent_length
              THEN LET n == ExchangeOverflowCount(Len(added), max_recent_length)
                       b == EnsureConversationBoundary(Take(added, n), Drop(added, n))
                   IN  /\ recent_messages' = b.recent
                       /\ mem_ret' = RetList("add_exchange", b.overflow)
              ELSE /\ recent_messages' = added
                   /\ mem_ret' = RetNone("add_exchange")
    /\ mem_ops' = mem_ops \cup {"add_exchange"}
    /\ UNCHANGED <<max_recent_length, notMemVars>>

\* add_single_message's overflow_count, for len(recent_messages) = len > max
SingleOverflowCount(len, max) ==
    LET c == len - max
    IN  IF c = 1 /\ len > 1 /\ len > max + 1 THEN 2 ELSE c

\* add_single_message(role, content): the function has no return statement
AddSingleMessage(role, content) ==
    /\ message_count + 1 <= MaxCount
    /\ LET added == Append(recent_messages, Message(role, message_count, content))
       IN  /\ message_count' = message_count + 1
           /\ IF Len(added) > max_recent_length
              THEN recent_messages' =
                       Drop(added, SingleOverflowCount(Len(added), max_recent_length))
              ELSE recent_messages' = added
    /\ mem_ret' = RetNone("add_single_message")
    /\ mem_ops' = mem_ops \cup {"add_single_message"}
    /\ UNCHANGED <<max_recent_length, notMemVars>>

\* add_legacy_message's overflow_count, for len(recent_messages) = len > max
LegacyOverflowCount(len, max) ==
    LET c == len - max
    IN  IF c % 2 # 0 /\ len > c THEN c + 1 ELSE c

\* add_legacy_message(message)
AddLegacyMessage(role, content) ==
    /\ message_count + 1 <= MaxCount
    /\ LET r == NormalizeRole(IF role = "absent" THEN "assistant" ELSE role)
           added == Append(recent_messages,
                           Message(r, message_count, NormalizeContent(content)))
       IN  /\ message_count' = message_count + 1
           /\ IF Len(added) > max_recent_length
              THEN LET n == LegacyOverflowCount(Len(added), max_recent_length)
                       b == EnsureConversationBoundary(Take(added, n), Drop(added, n))
                   IN  /\ recent_messages' = b.recent
                       /\ mem_ret' = RetList("add_legacy_message", b.overflow)
              ELSE /\ recent_messages' = added
                   /\ mem_ret' = RetNone("add_legacy_message")
    /\ mem_ops' = mem_ops \cup {"add_legacy_message"}
    /\ UNCHANGED <<max_recent_length, notMemVars>>

\* get_recent_messages_for_ai with the last message left out
RecentMessagesForAiShort(msgs) ==
    [k \in 1..(Len(msgs) - 1) |-> [role |-> msgs[k].role, content |-> msgs[k].content]]

\* lines 265-268: the list get_recent_messages_for_ai builds
RecentMessagesForAi(msgs) ==
    [k \in 1..Len(msgs) |-> [role |-> msgs[k].role, content |-> msgs[k].content]]

\* get_recent_messages_for_ai()
GetRecentMessagesForAi ==
    /\ mem_ret' = RetList("get_recent_messages_for_ai", RecentMessagesForAi(recent_messages))
    /\ UNCHANGED <<recent_messages, message_count, max_recent_length, mem_ops,
                   notMemVars>>

\* clear_session()
ClearSession ==
    /\ mem_ret' = RetList("clear_session", recent_messages)
    /\ recent_messages' = <<>>
    /\ message_count' = 0
    /\ mem_ops' = mem_ops \cup {"clear_session"}
    /\ UNCHANGED <<max_recent_length, notMemVars>>

\* __init__(max_recent_length)
MemInit ==
    /\ recent_messages = <<>>
    /\ max_recent_length \in 0..MaxRecent
    /\ message_count = 0
    /\ mem_ret = RetNone("__init__")
    /\ mem_ops = {}

MemNext ==
    \/ \E user_msg \in Contents, ai_msg \in AiContents : AddExchange(user_msg, ai_msg)
    \/ \E role \in Roles, content \in SingleContents : AddSingleMessage(role, content)
    \/ \E role \in LegacyRoles, content \in LegacyContents :
           AddLegacyMessage(role, content)
    \/ GetRecentMessagesForAi
    \/ ClearSession


\* the session memory while another component is exercised
MemIdle ==
    /\ recent_messages = <<>>
    /\ max_recent_length = 0
    /\ message_count = 0
    /\ mem_ret = RetNone("__init__")
    /\ mem_ops = {}

----------------------------------------------------------------------------
(* analyze_task_progress (src/src/cli_ai/utils/task_progress.py) *)

\* a recorded result: None, or a dict with a status
NoneResult == [none |-> TRUE, status |-> ""]
ResultDict(status) == [none |-> FALSE, status |-> status]

Results == {NoneResult, ResultDict("Success"), ResultDict("Error")}

\* an entry of actions_taken, as add_action_to_memory builds it
Action(tool, args, result) == [tool |-> tool, args |-> args, result |-> result]

\* the (tool, args) pairs the oracle decides on
ActionCalls ==
    {[tool |-> "list_directory", args |-> [path |-> Str(s_dot)]],
     [tool |-> "read_text_file", args |-> [file_path |-> Str(s_a_jpg)]],
     [tool |-> "read_text_file", args |-> [file_path |-> Str(s_b_jpg)]]}

\* a latest_action that is false as a condition (None or {})
NoAction == [tool |-> "", args |-> <<>>]

\* what analyze_task_progress did for latest_action: raised, or returned
\* the dict {'should_continue': ..., 'reason': ...}
ProgressResult(should_continue, reason) ==
    [called |-> TRUE, raised |-> FALSE, should_continue |-> should_continue,
     reason |-> reason, latest_action |-> NoAction]

ProgressRaised ==
    [called |-> TRUE, raised |-> TRUE, should_continue |-> FALSE,
     reason |-> Str(<<>>), latest_action |-> NoAction]

NoProgress ==
    [called |-> FALSE, raised |-> FALSE, should_continue |-> FALSE,
     reason |-> Str(<<>>), latest_action |-> NoAction]

\* actions_taken[-n:]
LastN(actions, n) == Drop(actions, Len(actions) - Min(n, Len(actions)))

\* lines 38-43: the comparison of one recent action with the latest one;
\* raises is true when action.get("result", {}) is None, whose .get raises
\* AttributeError, which the and-chain reaches only for the same tool and args
ExactMatch(action, latest_tool, latest_args) ==
    IF action.tool = latest_tool /\ action.args = latest_args
    THEN [raises |-> action.result.none,
          val |-> ~action.result.none /\ action.result.status = "Success"]
    ELSE [raises |-> FALSE, val |-> FALSE]

\* f'Detected {exact_matches} repetitions of {latest_tool}. Stopping ...'
RepetitionReason(exact_matches, latest_tool) ==
    Str(<<"Detected ", ToString(exact_matches), " repetitions of ", latest_tool,
          ". Stopping to prevent infinite loop.">>)

\* lines 52-61 and 64: the directory-listing guard and the default
ListingGuard(actions) ==
    IF /\ Len(actions) >= 5
       /\ Cardinality({k \in 1..5 :
               LastN(actions, 5)[k].tool = "list_directory"}) >= 4
    THEN ProgressResult(FALSE,
             Str(<<"Too much directory listing without taking action. Time to proceed with the task.">>))
    ELSE ProgressResult(TRUE, Str(<<"Continue normally">>))

\* a mutant of AnalyzeTaskProgress without the test of lines 22-27
AnalyzeTaskProgressNoValve(actions, latest_action) == ListingGuard(actions)

\* lines 5-64: analyze_task_progress(task_memory, latest_action,
\* latest_result) for task_memory["actions_taken"] = actions
AnalyzeTaskProgress(actions, latest_action) ==
    LET actions_count == Len(actions)
        recent_actions == LastN(actions, 4)
        matches == [k \in 1..Len(recent_actions) |->
                       ExactMatch(recent_actions[k], latest_action.tool,
                                  latest_action.args)]
        exact_matches == Cardinality({k \in 1..Len(recent_actions) : matches[k].val})
    IN  IF actions_count = 0
        THEN ProgressResult(TRUE, Str(<<"Ready to start task">>))
        ELSE IF actions_count > 25
        THEN ProgressResult(FALSE,
                 Str(<<"Task has taken ", ToString(actions_count),
                       " actions. Time to wrap up and provide results.">>))
        ELSE IF actions_count >= 3 /\ latest_action # NoAction
        THEN IF \E k \in 1..Len(recent_actions) : matches[k].raises
             THEN ProgressRaised
             ELSE IF exact_matches >= 3
                  THEN ProgressResult(FALSE,
                           RepetitionReason(exact_matches, latest_action.tool))
                  ELSE ListingGuard(actions)
        ELSE ListingGuard(actions)

ProgressIdle ==
    /\ actions_taken = <<>>
    /\ knowledge = {}
    /\ progress_ret = NoProgress

\* src/src/cli_ai/core/prompts.py lines 16-25: a fresh task memory
ProgressInit == ProgressIdle

\* src/src/cli_ai/core/ai_engine.py lines 129-139 and prompts.py lines
\* 28-39: think records the action it decided on, with result None
Think(call) ==
    /\ Len(actions_taken) < MaxActions
    /\ actions_taken' = Append(actions_taken, Action(call.tool, call.args, NoneResult))
    /\ progress_ret' = NoProgress
    /\ UNCHANGED <<knowledge, notProgressVars>>

\* src/src/cli_ai/core/ai_engine.py lines 150-170: record_action_result(tool,
\* args, result); has_result says whether the output has a "result" key
RecordActionResult(call, result, has_result) ==
    /\ actions_taken' =
           IF /\ Len(actions_taken) > 0
              /\ actions_taken[Len(actions_taken)].tool = call.tool
              /\ actions_taken[Len(actions_taken)].args = call.args
           THEN [actions_taken EXCEPT ![Len(actions_taken)].result = result]
           ELSE actions_taken
    /\ knowledge' =
           IF /\ ~result.none
              /\ result.status = "Success"
              /\ call.tool = "list_directory"
              /\ has_result
           THEN knowledge \cup {<<"files_in_", call.args["path"].v>>}
           ELSE knowledge
    /\ progress_ret' = NoProgress
    /\ UNCHANGED notProgressVars

\* a caller consults analyze_task_progress about latest_action
Analyze(latest_action) ==
    /\ progress_ret' =
           [AnalyzeTaskProgress(actions_taken, latest_action)
               EXCEPT !.latest_action = latest_action]
    /\ UNCHANGED <<actions_taken, knowledge, notProgressVars>>

\* longest history of recorded actions analyze_task_progress is given
MaxRecorded == 5

\* the actions a history is made of: reading tools and a writing one, each
\* with the result record_action_result stored for it
RecordedActions ==
    {Action(call.tool, call.args, result) :
        call \in {[tool |-> "list_directory", args |-> [path |-> Str(s_dot)]],
                  [tool |-> "read_text_file", args |-> [file_path |-> Str(s_a_jpg)]],
                  [tool |-> "write_file", args |-> [file_path |-> Str(s_a_jpg)]]},
        result \in {ResultDict("Success"), ResultDict("Error")}}

\* long histories, around the 25 actions of line 23: a pattern of two
\* recorded actions, completed or not, repeated
LongHistories ==
    {[k \in 1..n |-> pat[((k - 1) % 2) + 1]] :
        n \in 24..27,
        pat \in [1..2 -> RecordedActions \cup
                          {Action(a.tool, a.args, NoneResult) : a \in RecordedActions}]}

\* the task memories a run of the agent can have built by the time
\* analyze_task_progress is consulted
AnalyzeInit ==
    /\ actions_taken \in
           UNION {[1..n -> RecordedActions] : n \in 0..MaxRecorded} \cup LongHistories
    /\ knowledge = {}
    /\ progress_ret = NoProgress

\* the latest action is the last one recorded, or there is none
AnalyzeNext ==
    \E latest_action \in
            {NoAction} \cup
            {[tool |-> a.tool, args |-> a.args] : a \in RecordedActions} :
        Analyze(latest_action)

ProgressNext ==
    \/ \E call \in ActionCalls : Think(call)
    \/ \E call \in ActionCalls : \E result \in Results :
           \E has_result \in BOOLEAN : RecordActionResult(call, result, has_result)
    \/ \E latest_action \in ActionCalls \cup {NoAction} : Analyze(latest_action)

----------------------------------------------------------------------------
(* think and reflexion (src/src/cli_ai/core/ai_engine.py)                  *)

\* most think and reflexion calls a run makes
MaxOracleCalls == 2

\* The text of a response is a sequence of JSON tokens: the punctuation
\* "{", "}", ":" and ",", string literals (written without their quotes),
\* the number 5, and " " for white space. Any other token is not JSON.
JsonStringTokens ==
    {"text", "action", "original_user_request", "decision", "continue",
     "finish", "error", "maybe", "comment", "next_action", "tool", "ls", "hi",
     "APPROVE", "DECLINE", "CONFIRM_CRITICAL", "reason"}
JsonNumberTokens == {"5"}

ParseFail == [ok |-> FALSE, val |-> Str(<<>>), next |-> 0]
ParseOk(val, next) == [ok |-> TRUE, val |-> val, next |-> next]

RECURSIVE ParseValue(_, _)
RECURSIVE ParseMembers(_, _, _)

\* the JSON value that starts at token p, and the position after it
ParseValue(raw, p) ==
    IF p > Len(raw) THEN ParseFail
    ELSE IF raw[p] \in JsonStringTokens THEN ParseOk(Str(<<raw[p]>>), p + 1)
    ELSE IF raw[p] \in JsonNumberTokens THEN ParseOk(IntV(5), p + 1)
    ELSE IF raw[p] = "{" THEN
        IF p + 1 <= Len(raw) /\ raw[p + 1] = "}"
        THEN ParseOk(Dict(<<>>), p + 2)
        ELSE ParseMembers(raw, p + 1, <<>>)
    ELSE ParseFail

\* the members of an object from token p on: key : value, then "," or "}";
\* a key given twice keeps its last value
ParseMembers(raw, p, d) ==
    IF p + 1 > Len(raw) \/ raw[p] \notin JsonStringTokens THEN ParseFail
    ELSE IF raw[p + 1] # ":" THEN ParseFail
    ELSE LET member == ParseValue(raw, p + 2)
         IN  IF ~member.ok \/ member.next > Len(raw) THEN ParseFail
             ELSE IF raw[member.next] = "}"
                  THEN ParseOk(Dict(Put(d, raw[p], member.val)), member.next + 1)
             ELSE IF raw[member.next] = ","
                  THEN ParseMembers(raw, member.next + 1, Put(d, raw[p], member.val))
             ELSE ParseFail

\* json.loads(raw): the value, or ok = FALSE where json.loads raises
JsonLoads(raw) ==
    LET parsed == ParseValue(raw, 1)
    IN  IF parsed.ok /\ parsed.next = Len(raw) + 1
        THEN [ok |-> TRUE, val |-> parsed.val]
        ELSE [ok |-> FALSE, val |-> Str(<<>>)]

\* what chat.completions.create and response.choices[0].message.content
\* give: the call raises, the content is None, or the content is a text
LLMRaises == [raises |-> TRUE, none |-> FALSE, content |-> <<>>]
NoContent == [raises |-> FALSE, none |-> TRUE, content |-> <<>>]
Content(raw) == [raises |-> FALSE, none |-> FALSE, content |-> raw]

RawResponses ==
    {<<>>,
     <<" ">>,
     <<"{">>,
     <<"{", "text", ":", "hi">>,
     <<"sorry">>,
     <<"hi">>,
     <<"action">>,
     <<"5">>,
     <<"{", "}">>,
     <<"{", "text", ":", "hi", "}">>,
     <<"{", "action", ":", "{", "tool", ":", "ls", "}", ",",
       "original_user_request", ":", "hi", "}">>,
     <<"{", "action", ":", "{", "tool", ":", "ls", "}", "}">>,
     <<"{", "action", ":", "hi", "}">>,
     <<"{", "decision", ":", "finish", ",", "comment", ":", "hi", "}">>,
     <<"{", "decision", ":", "error", ",", "comment", ":", "hi", "}">>,
     <<"{", "decision", ":", "continue", ",",
       "next_action", ":", "{", "tool", ":", "ls", "}", "}">>,
     <<"{", "decision", ":", "continue", "}">>,
     <<"{", "decision", ":", "maybe", "}">>,
     <<"{", "decision", ":", "APPROVE", "}">>,
     <<"{", "decision", ":", "DECLINE", ",", "reason", ":", "hi", "}">>,
     <<"{", "decision", ":", "CONFIRM_CRITICAL", ",", "reason", ":", "hi", "}">>,
     <<"{", "reason", ":", "hi", "}">>,
     <<"decision">>}

Completions == {LLMRaises, NoContent} \cup {Content(raw) : raw \in RawResponses}

\* what a call of think or reflexion does: it returns val, or an exception
\* leaves it
OracleReturns(val) == [raised |-> FALSE, val |-> val]
OracleRaised == [raised |-> TRUE, val |-> Str(<<>>)]

\* lines 145-147
ThinkFailure == OracleReturns(Dict([text |-> Str(<<"Sorry, an error occurred.">>)]))
\* lines 255-257
ReflexionFailure ==
    OracleReturns(Dict([decision |-> Str(<<"error">>),
                        comment |-> Str(<<"Sorry, an error occurred during reflection.">>)]))
\* lines 249-251
ReflexionEmpty ==
    OracleReturns(Dict([decision |-> Str(<<"error">>),
                        comment |-> Str(<<"LLM returned an empty response during reflection.">>)]))

\* an exception raised inside the try of think, with the handler removed
ThinkHandlerRemoved == OracleRaised
\* lines 145-147: except Exception returns the apology
ThinkHandler == ThinkFailure

\* lines 130-141: the decision names an action that think can record;
\* "action" in decision and action.get raise on values of other types
RecordsAction(decision) ==
    /\ decision.t = "dict"
    /\ "action" \in DOMAIN decision.v
    /\ decision.v["action"].t = "dict"

\* lines 116-147: the try of think
ThinkDecision(completion) ==
    IF completion.raises \/ completion.none THEN ThinkHandler
    ELSE LET parsed == JsonLoads(completion.content)
         IN  IF ~parsed.ok THEN ThinkHandler
             ELSE CASE parsed.val.t = "dict" ->
                         IF "action" \in DOMAIN parsed.val.v
                            /\ ~RecordsAction(parsed.val)
                         THEN ThinkHandler
                         ELSE OracleReturns(parsed.val)
                    [] parsed.val.t = "str" ->
                         IF Contains(parsed.val.v, <<"action">>)
                         THEN ThinkHandler
                         ELSE OracleReturns(parsed.val)
                    [] OTHER -> ThinkHandler

\* lines 237-257: the LLM call of reflexion and what follows it
ReflexionDecision(completion) ==
    IF completion.raises \/ completion.none THEN ReflexionFailure
    ELSE IF Strip(completion.content) = <<>> THEN ReflexionEmpty
    ELSE LET parsed == JsonLoads(completion.content)
         IN  IF ~parsed.ok THEN ReflexionFailure
             ELSE OracleReturns(parsed.val)

\* src/ai_core.py lines 1-14: the names the module binds before its functions
AiCoreGlobals ==
    {"os", "json", "AsyncOpenAI", "load_dotenv", "get_agent_system_prompt",
     "get_summarizer_system_prompt", "get_tool_summary_prompt",
     "get_final_summary_system_prompt", "memory", "client"}

VerifierDecisions == {Str(<<"APPROVE">>), Str(<<"DECLINE">>), Str(<<"CONFIRM_CRITICAL">>)}

\* src/ai_core.py lines 171-174
VerifierFailSafe ==
    OracleReturns(Dict([decision |-> Str(<<"CONFIRM_CRITICAL">>),
                        reason |-> Str(<<"The AI verifier failed with an error">>)]))

\* src/ai_core.py lines 168-174: the handler reads Fore.RED before it returns
VerifierHandler ==
    IF "Fore" \in AiCoreGlobals THEN VerifierFailSafe ELSE OracleRaised

\* src/ai_core.py lines 153-174: the try of verify_agent_plan
VerifyDecision(completion) ==
    IF completion.raises \/ completion.none THEN VerifierHandler
    ELSE LET parsed == JsonLoads(completion.content)
         IN  IF ~parsed.ok THEN VerifierHandler
             ELSE IF /\ parsed.val.t = "dict"
                     /\ "decision" \in DOMAIN parsed.val.v
                     /\ parsed.val.v["decision"] \in VerifierDecisions
                  THEN OracleReturns(parsed.val)
                  ELSE VerifierHandler

\* action.get("tool", "unknown")
ToolOf(action) ==
    IF "tool" \in DOMAIN action.v /\ action.v["tool"].t = "str"
       /\ Len(action.v["tool"].v) = 1
    THEN action.v["tool"].v[1]
    ELSE "unknown"

\* action.get("args", {})
ArgsOf(action) ==
    IF "args" \in DOMAIN action.v /\ action.v["args"].t = "dict"
    THEN action.v["args"].v
    ELSE <<>>

\* the latest user message of the history think is given; "" without one
LatestUserMessages == {<<>>, <<"hi">>}

NoOracleReturn ==
    [called |-> FALSE, fn |-> "", completion |-> LLMRaises,
     raised |-> FALSE, val |-> Str(<<>>)]

OracleReturn(fn, completion, r) ==
    [called |-> TRUE, fn |-> fn, completion |-> completion,
     raised |-> r.raised, val |-> r.val]

OracleIdle ==
    /\ original_request = <<>>
    /\ oracle_ret = NoOracleReturn
    /\ oracle_calls = 0

OracleInit == OracleIdle

\* lines 66-147: think; a task memory without a request or without actions
\* is reset first, and a decision with an action is recorded in it
think(latest_user_message, completion) ==
    /\ oracle_calls < MaxOracleCalls
    /\ Len(actions_taken) < MaxActions
    /\ LET reset == original_request = <<>> \/ actions_taken = <<>>
           taken == IF reset THEN <<>> ELSE actions_taken
           r == ThinkDecision(completion)
           decision == JsonLoads(completion.content).val
           records == /\ ~completion.raises
                      /\ ~completion.none
                      /\ JsonLoads(completion.content).ok
                      /\ RecordsAction(decision)
       IN  /\ original_request' =
                  IF reset THEN latest_user_message ELSE original_request
           /\ knowledge' = IF reset THEN {} ELSE knowledge
           /\ actions_taken' =
                  IF records
                  THEN Append(taken, Action(ToolOf(decision.v["action"]),
                                            ArgsOf(decision.v["action"]),
                                            NoneResult))
                  ELSE taken
           /\ oracle_ret' = OracleReturn("think", completion, r)
    /\ oracle_calls' = oracle_calls + 1
    /\ UNCHANGED <<progress_ret, notOracleVars>>

\* lines 172-257: reflexion
reflexion(completion) ==
    /\ oracle_calls < MaxOracleCalls
    /\ oracle_ret' = OracleReturn("reflexion", completion, ReflexionDecision(completion))
    /\ oracle_calls' = oracle_calls + 1
    /\ UNCHANGED <<original_request, progressVars, notOracleVars>>

\* src/ai_core.py lines 103-174: verify_agent_plan
verify_agent_plan(completion) ==
    /\ oracle_calls < MaxOracleCalls
    /\ oracle_ret' = OracleReturn("verify_agent_plan", completion,
                                  VerifyDecision(completion))
    /\ oracle_calls' = oracle_calls + 1
    /\ UNCHANGED <<original_request, progressVars, notOracleVars>>

OracleNext ==
    \/ \E m \in LatestUserMessages, c \in Completions : think(m, c)
    \/ \E c \in Completions : reflexion(c)
    \/ \E c \in Completions : verify_agent_plan(c)

----------------------------------------------------------------------------
(* Tool-execution mode of the session memory. SessionMemoryManager has no *)
(* such field and no operation of it reads one; the sub-loop that would   *)
(* bracket its adds is stated here as spec.md section 4 describes it.     *)

ModeIdle == tool_execution_mode = FALSE

\* the flag is set before entering the act-observe-reflect sub-loop
BeginToolExecution ==
    /\ ~tool_execution_mode
    /\ tool_execution_mode' = TRUE
    /\ UNCHANGED notModeVars

\* the flag is cleared when the sub-loop terminates
EndToolExecution ==
    /\ tool_execution_mode
    /\ tool_execution_mode' = FALSE
    /\ UNCHANGED notModeVars

MemModeNext == MemNext \/ BeginToolExecution \/ EndToolExecution

----------------------------------------------------------------------------
(* WorkspaceAwareEngine, WorkspaceManager and TaskWorkspace                *)
(* (src/src/cli_ai/workspace/engine.py, core.py)                           *)

\* most workspaces created, and most actions a workspace records
MaxTasks == 1
MaxWsActions == 2

\* core.py lines 88-98: a fresh TaskWorkspace
NewWorkspace(task_id) ==
    [task_id |-> task_id, original_request |-> <<"hi">>, current_goal |-> <<>>,
     actions_taken |-> <<>>, observations |-> <<>>,
     knowledge |-> {}, progress_state |-> "initialized", next_steps |-> <<>>]

\* core.py lines 100-114: add_action appends an Action with a fresh id and
\* makes its goal the current goal
AddAction(w, action_id, tool) ==
    [w EXCEPT !.actions_taken =
                  Append(@, [action_id |-> action_id, tool |-> tool, goal |-> <<"g">>]),
              !.current_goal = <<"g">>]

\* core.py lines 116-129: add_observation appends, whatever action_id is
AddObservation(w, action_id, status, output) ==
    [w EXCEPT !.observations =
                  Append(@, [action_id |-> action_id, status |-> status,
                             output |-> output])]

\* core.py lines 131-134
UpdateKnowledge(w, key) == [w EXCEPT !.knowledge = @ \cup {key}]

\* core.py lines 202-215: to_dict, the Action and Observation objects as
\* dicts (lines 26-34, 58-66)
ToDict(w) ==
    [task_id |-> w.task_id,
     original_request |-> w.original_request,
     current_goal |-> w.current_goal,
     actions_taken |-> [k \in 1..Len(w.actions_taken) |->
                           [action_id |-> w.actions_taken[k].action_id,
                            tool |-> w.actions_taken[k].tool,
                            goal |-> w.actions_taken[k].goal]],
     observations |-> [k \in 1..Len(w.observations) |->
                          [action_id |-> w.observations[k].action_id,
                           status |-> w.observations[k].status,
                           output |-> w.observations[k].output]],
     accumulated_knowledge |-> w.knowledge,
     progress_state |-> w.progress_state,
     next_steps |-> w.next_steps]

\* a mutant of FromDict that keeps the constructor's progress_state
FromDictInitialized(data) ==
    [NewWorkspace(data.task_id) EXCEPT
        !.original_request = data.original_request,
        !.current_goal = data.current_goal,
        !.actions_taken = data.actions_taken,
        !.observations = data.observations,
        !.knowledge = data.accumulated_knowledge,
        !.next_steps = data.next_steps]

\* core.py lines 217-232: from_dict builds a workspace by the constructor
\* and assigns the saved fields (Action.from_dict, Observation.from_dict:
\* lines 36-45, 68-77)
FromDict(data) ==
    [NewWorkspace(data.task_id) EXCEPT
        !.original_request = data.original_request,
        !.current_goal = data.current_goal,
        !.actions_taken = [k \in 1..Len(data.actions_taken) |->
                              [action_id |-> data.actions_taken[k].action_id,
                               tool |-> data.actions_taken[k].tool,
                               goal |-> data.actions_taken[k].goal]],
        !.observations = [k \in 1..Len(data.observations) |->
                             [action_id |-> data.observations[k].action_id,
                              status |-> data.observations[k].status,
                              output |-> data.observations[k].output]],
        !.knowledge = data.accumulated_knowledge,
        !.progress_state = data.progress_state,
        !.next_steps = data.next_steps]

\* core.py lines 252-266: get_workspace; found = FALSE where it returns None
GetWorkspace(active, disk, task_id) ==
    IF task_id \in DOMAIN active
    THEN [found |-> TRUE, w |-> active[task_id], active |-> active]
    ELSE IF task_id \in DOMAIN disk
    THEN [found |-> TRUE, w |-> FromDict(disk[task_id]),
          active |-> Put(active, task_id, FromDict(disk[task_id]))]
    ELSE [found |-> FALSE, w |-> NewWorkspace(0), active |-> active]

\* core.py lines 280-286: close_workspace
CloseWorkspace(active, task_id) ==
    IF task_id \in DOMAIN active
    THEN [x \in (DOMAIN active) \ {task_id} |-> active[x]]
    ELSE active

\* engine.py lines 191-205: the keys _extract_knowledge_from_output sets
ExtractedKeys(output) ==
    CASE output = "listing" -> {"last_directory_listing"}
      [] output = "image" -> {"image_analyses"}
      [] OTHER -> {}

\* what the caller passes as output: None or {} (all a failed tool leaves),
\* a dict whose result is a list, a dict with response and image_path,
\* another dict
WsOutputs == {"empty", "listing", "image", "other"}

\* what the two LLM calls of think_with_workspace come to
Phase1Outcomes == {"raises", "not_dict", "no_tools", "needs_tools"}
Phase2Outcomes == {"raises", "cannot_complete", "action", "bad_action"}

\* what the LLM call of reflexion_with_workspace comes to
ReflexionOutcomes ==
    {"raises", "empty", "not_dict", "finish", "continue", "continue_action",
     "continue_bad_action", "other"}

NoPending == [task_id |-> 0, action_id |-> 0]
NoWsReturn == [op |-> "", raised |-> FALSE, kind |-> "", action_id |-> 0]
WsReturn(op, kind, action_id) ==
    [op |-> op, raised |-> FALSE, kind |-> kind, action_id |-> action_id]
WsRaised(op) == [op |-> op, raised |-> TRUE, kind |-> "", action_id |-> 0]

WorkspaceIdle ==
    /\ task_count = 0
    /\ active_workspaces = <<>>
    /\ storage = <<>>
    /\ next_action_id = 1
    /\ pending_action = NoPending
    /\ ws_ret = NoWsReturn

\* engine.py lines 27-29 and core.py lines 240-243
WorkspaceInit == WorkspaceIdle

\* update_workspace (core.py lines 274-278): the workspace is put among the
\* active ones and saved
Updated(active, disk, w) ==
    [active |-> Put(active, w.task_id, w), disk |-> Put(disk, w.task_id, ToDict(w))]

\* engine.py lines 31-174: think_with_workspace; task_id = 0 stands for None
think_with_workspace(task_id, phase1, phase2) ==
    /\ task_id = 0 => task_count < MaxTasks
    /\ task_id \in 0..task_count + 1
    /\ (phase1 = "needs_tools" /\ phase2 = "action") => next_action_id <= MaxWsActions
    /\ LET tid == IF task_id = 0 THEN task_count + 1 ELSE task_id
           created == task_id = 0
           got == IF created
                  THEN [found |-> TRUE, w |-> NewWorkspace(tid),
                        active |-> Put(active_workspaces, tid, NewWorkspace(tid))]
                  ELSE GetWorkspace(active_workspaces, storage, tid)
           disk0 == IF created THEN Put(storage, tid, ToDict(NewWorkspace(tid)))
                    ELSE storage
           failed(w) == [UpdateKnowledge(w, "error") EXCEPT !.progress_state = "error"]
           w1 == UpdateKnowledge(got.w, "phase1_decision")
           proposes == phase1 = "needs_tools" /\ phase2 = "action"
           w2 == CASE phase1 = "raises" -> failed(got.w)
                   [] phase1 = "not_dict" -> failed(w1)
                   [] phase1 = "no_tools" -> [w1 EXCEPT !.progress_state = "completed"]
                   [] phase2 \in {"raises", "bad_action"} -> failed(w1)
                   [] phase2 = "cannot_complete" -> [w1 EXCEPT !.progress_state = "failed"]
                   [] OTHER -> [AddAction(w1, next_action_id, "ls")
                                    EXCEPT !.progress_state = "executing"]
           u == Updated(got.active, disk0, w2)
       IN  /\ task_count' = IF created THEN tid ELSE task_count
           /\ IF ~got.found
              THEN /\ ws_ret' = WsRaised("think_with_workspace")
                   /\ UNCHANGED <<active_workspaces, storage, next_action_id,
                                  pending_action>>
              ELSE /\ active_workspaces' = u.active
                   /\ storage' = u.disk
                   /\ next_action_id' = IF proposes THEN next_action_id + 1
                                        ELSE next_action_id
                   /\ pending_action' =
                          IF proposes
                          THEN [task_id |-> tid, action_id |-> next_action_id]
                          ELSE pending_action
                   /\ ws_ret' =
                          IF proposes
                          THEN WsReturn("think_with_workspace", "action", next_action_id)
                          ELSE WsReturn("think_with_workspace", "text", 0)
    /\ UNCHANGED notWorkspaceVars

\* engine.py lines 176-189: record_action_result, called by the loop with
\* the action id it was given for the action it has just run
record_action_result(status, output) ==
    /\ pending_action # NoPending
    /\ LET got == GetWorkspace(active_workspaces, storage, pending_action.task_id)
           w1 == AddObservation(got.w, pending_action.action_id, status, output)
           w2 == IF status = "Success" /\ output # "empty"
                 THEN [w1 EXCEPT !.knowledge = @ \cup ExtractedKeys(output)]
                 ELSE w1
           u == Updated(got.active, storage,
                        [w2 EXCEPT !.progress_state = "waiting_for_next_step"])
       IN  IF got.found
           THEN /\ active_workspaces' = u.active
                /\ storage' = u.disk
           ELSE UNCHANGED <<active_workspaces, storage>>
    /\ pending_action' = NoPending
    /\ ws_ret' = WsReturn("record_action_result", "none", 0)
    /\ UNCHANGED <<task_count, next_action_id, notWorkspaceVars>>

\* engine.py lines 207-290: reflexion_with_workspace
reflexion_with_workspace(task_id, outcome) ==
    /\ task_id \in 1..task_count + 1
    /\ outcome = "continue_action" => next_action_id <= MaxWsActions
    /\ LET got == GetWorkspace(active_workspaces, storage, task_id)
           failed(w) == [UpdateKnowledge(w, "reflexion_error")
                            EXCEPT !.progress_state = "error"]
           proposes == outcome = "continue_action"
           w2 == CASE outcome \in {"raises", "not_dict"} -> failed(got.w)
                   [] outcome = "finish" -> [got.w EXCEPT !.progress_state = "completed"]
                   [] outcome = "continue" ->
                          [got.w EXCEPT !.progress_state = "planning_next_action"]
                   [] outcome = "continue_action" ->
                          [AddAction(got.w, next_action_id, "ls")
                              EXCEPT !.progress_state = "planning_next_action"]
                   [] outcome = "continue_bad_action" -> failed(got.w)
                   [] OTHER -> [got.w EXCEPT !.progress_state = "error"]
           closed == IF outcome = "finish"
                     THEN CloseWorkspace(got.active, task_id)
                     ELSE got.active
           u == Updated(closed, storage, w2)
       IN  IF ~got.found
           THEN /\ ws_ret' = WsReturn("reflexion_with_workspace", "error", 0)
                /\ UNCHANGED <<active_workspaces, storage, next_action_id,
                               pending_action>>
           ELSE IF outcome = "empty"
           THEN /\ ws_ret' = WsReturn("reflexion_with_workspace", "error", 0)
                /\ active_workspaces' = got.active
                /\ UNCHANGED <<storage, next_action_id, pending_action>>
           ELSE /\ active_workspaces' = u.active
                /\ storage' = u.disk
                /\ next_action_id' = IF proposes THEN next_action_id + 1
                                     ELSE next_action_id
                /\ pending_action' =
                       IF proposes
                       THEN [task_id |-> task_id, action_id |-> next_action_id]
                       ELSE pending_action
                /\ ws_ret' =
                       IF outcome \in {"raises", "not_dict", "continue_bad_action"}
                       THEN WsReturn("reflexion_with_workspace", "error", 0)
                       ELSE WsReturn("reflexion_with_workspace", outcome,
                                     IF proposes THEN next_action_id ELSE 0)
    /\ UNCHANGED <<task_count, notWorkspaceVars>>

\* the user declines the proposed action: it is not run and no result is
\* recorded for it
DeclineAction ==
    /\ pending_action # NoPending
    /\ pending_action' = NoPending
    /\ UNCHANGED <<task_count, active_workspaces, storage, next_action_id,
                   ws_ret, notWorkspaceVars>>

\* core.py lines 240-243: a fresh WorkspaceManager over the same directory
RestartManager ==
    /\ active_workspaces # <<>>
    /\ pending_action = NoPending
    /\ active_workspaces' = <<>>
    /\ UNCHANGED <<task_count, storage, next_action_id, pending_action,
                   ws_ret, notWorkspaceVars>>

WorkspaceNext ==
    \/ \E t \in 0..MaxTasks + 1, p1 \in Phase1Outcomes, p2 \in Phase2Outcomes :
           \* the second LLM call is made only when the first asks for tools
           /\ p1 # "needs_tools" => p2 = "raises"
           /\ think_with_workspace(t, p1, p2)
    \/ \E s \in {"Success", "Error"}, o \in WsOutputs :
           /\ s = "Error" => o = "empty"
           /\ record_action_result(s, o)
    \/ \E t \in 1..MaxTasks + 1, o \in ReflexionOutcomes :
           \* no LLM call is made for a task that is not found
           /\ t > task_count => o = "raises"
           /\ reflexion_with_workspace(t, o)
    \/ DeclineAction
    \/ RestartManager

----------------------------------------------------------------------------
(* The spinner (src/utils.py lines 9-33, the same class in src/main.py
   lines 20-43): start() and stop() run in the caller, _spin in a thread of
   its own; every read and write of self.running is a step, and the steps
   of the two interleave freely *)

\* start/stop cycles of one Spinner, and the frames one thread draws
MaxSpins == 3
MaxFrames == 2

NewThread == [pc |-> "check", frames |-> 0]

\* utils.py lines 10-14: running False, no thread
SpinnerIdle ==
    /\ sp_running = FALSE
    /\ sp_thread = 0
    /\ sp_threads = <<>>
    /\ sp_caller = "idle"
    /\ sp_stdout = 0

SpinnerInit == SpinnerIdle

\* a mutant of JoinReturns: stop() does not wait for the thread
JoinReturnsAtOnce(thread) == TRUE

\* utils.py line 33: thread.join() returns when the thread has terminated
JoinReturns(thread) == thread.pc = "done"

\* utils.py line 26: start() sets the flag
SpinnerStartFlag ==
    /\ sp_caller \in {"idle", "stopped"}
    /\ Len(sp_threads) < MaxSpins
    /\ sp_running' = TRUE
    /\ sp_caller' = "starting"
    /\ UNCHANGED <<sp_thread, sp_threads, sp_stdout, notSpinnerVars>>

\* utils.py lines 27-28: start() creates the thread and starts it
SpinnerStartThread ==
    /\ sp_caller = "starting"
    /\ sp_threads' = Append(sp_threads, NewThread)
    /\ sp_thread' = Len(sp_threads) + 1
    /\ sp_caller' = "started"
    /\ UNCHANGED <<sp_running, sp_stdout, notSpinnerVars>>

\* utils.py line 31: stop() clears the flag
SpinnerStopFlag ==
    /\ sp_caller \in {"idle", "started"}
    /\ sp_running' = FALSE
    /\ sp_caller' = "stopping"
    /\ UNCHANGED <<sp_thread, sp_threads, sp_stdout, notSpinnerVars>>

\* utils.py lines 32-33: stop() joins the thread, if there is one, and
\* returns
SpinnerStopJoin ==
    /\ sp_caller = "stopping"
    /\ sp_thread # 0 => JoinReturns(sp_threads[sp_thread])
    /\ sp_caller' = "stopped"
    /\ UNCHANGED <<sp_running, sp_thread, sp_threads, sp_stdout, notSpinnerVars>>

\* utils.py line 17: the thread reads the flag
SpinCheck(k) ==
    /\ sp_threads[k].pc = "check"
    /\ sp_running => sp_threads[k].frames < MaxFrames
    /\ sp_threads' = [sp_threads EXCEPT ![k].pc =
                          IF sp_running THEN "frame" ELSE "clear"]
    /\ UNCHANGED <<sp_running, sp_thread, sp_caller, sp_stdout, notSpinnerVars>>

\* utils.py lines 18-19: the thread draws a frame
SpinFrame(k) ==
    /\ sp_threads[k].pc = "frame"
    /\ sp_stdout' = sp_stdout + 1
    /\ sp_threads' = [sp_threads EXCEPT ![k].pc = "sleep", ![k].frames = @ + 1]
    /\ UNCHANGED <<sp_running, sp_thread, sp_caller, notSpinnerVars>>

\* utils.py line 20: the thread sleeps and goes round the loop
SpinSleep(k) ==
    /\ sp_threads[k].pc = "sleep"
    /\ sp_threads' = [sp_threads EXCEPT ![k].pc = "check"]
    /\ UNCHANGED <<sp_running, sp_thread, sp_caller, sp_stdout, notSpinnerVars>>

\* utils.py lines 22-23: out of the loop, the thread clears the line and ends
SpinClear(k) ==
    /\ sp_threads[k].pc = "clear"
    /\ sp_stdout' = sp_stdout + 1
    /\ sp_threads' = [sp_threads EXCEPT ![k].pc = "done"]
    /\ UNCHANGED <<sp_running, sp_thread, sp_caller, notSpinnerVars>>

SpinnerNext ==
    \/ SpinnerStartFlag
    \/ SpinnerStartThread
    \/ SpinnerStopFlag
    \/ SpinnerStopJoin
    \/ \E k \in DOMAIN sp_threads : SpinCheck(k)
    \/ \E k \in DOMAIN sp_threads : SpinFrame(k)
    \/ \E k \in DOMAIN sp_threads : SpinSleep(k)
    \/ \E k \in DOMAIN sp_threads : SpinClear(k)

----------------------------------------------------------------------------
(* The specifications: one component exercised, the others at rest *)

InitMem ==
    MemInit /\ ToolInit /\ PlanIdle /\ MainIdle /\ ProgressIdle /\ SubstIdle
    /\ OracleIdle /\ ModeIdle /\ WorkspaceIdle /\ SpinnerIdle
SpecMem == InitMem /\ [][MemNext]_vars

InitTool ==
    ToolInit /\ MemIdle /\ PlanIdle /\ MainIdle /\ ProgressIdle /\ SubstIdle
    /\ OracleIdle /\ ModeIdle /\ WorkspaceIdle /\ SpinnerIdle
SpecTool == InitTool /\ [][ToolNext]_vars

InitPlan ==
    PlanInit /\ ToolInit /\ MemIdle /\ MainIdle /\ ProgressIdle /\ SubstIdle
    /\ OracleIdle /\ ModeIdle /\ WorkspaceIdle /\ SpinnerIdle
SpecPlan == InitPlan /\ [][PlanNext]_vars

InitMain ==
    MainInit /\ ToolInit /\ MemIdle /\ ProgressIdle /\ SubstIdle
    /\ OracleIdle /\ ModeIdle /\ WorkspaceIdle /\ SpinnerIdle
SpecMain == InitMain /\ [][MainNext]_vars

InitProgress ==
    ProgressInit /\ ToolInit /\ MemIdle /\ PlanIdle /\ MainIdle /\ SubstIdle
    /\ OracleIdle /\ ModeIdle /\ WorkspaceIdle /\ SpinnerIdle
SpecProgress == InitProgress /\ [][ProgressNext]_vars

InitAnalyze ==
    AnalyzeInit /\ ToolInit /\ MemIdle /\ PlanIdle /\ MainIdle /\ SubstIdle
    /\ OracleIdle /\ ModeIdle /\ WorkspaceIdle /\ SpinnerIdle
SpecAnalyze == InitAnalyze /\ [][AnalyzeNext]_vars

InitSubst ==
    SubstInit /\ ToolInit /\ MemIdle /\ PlanIdle /\ MainIdle /\ ProgressIdle
    /\ OracleIdle /\ ModeIdle /\ WorkspaceIdle /\ SpinnerIdle
SpecSubst == InitSubst /\ [][SubstNext]_vars

InitMemMode ==
    MemInit /\ ToolInit /\ PlanIdle /\ MainIdle /\ ProgressIdle /\ SubstIdle
    /\ OracleIdle /\ ModeIdle /\ WorkspaceIdle /\ SpinnerIdle
SpecMemMode == InitMemMode /\ [][MemModeNext]_vars

InitWorkspace ==
    WorkspaceInit /\ ToolInit /\ MemIdle /\ PlanIdle /\ MainIdle /\ ProgressIdle
    /\ SubstIdle /\ OracleIdle /\ ModeIdle /\ SpinnerIdle
SpecWorkspace == InitWorkspace /\ [][WorkspaceNext]_vars

InitOracle ==
    OracleInit /\ ToolInit /\ MemIdle /\ PlanIdle /\ MainIdle /\ ProgressIdle
    /\ SubstIdle /\ ModeIdle /\ WorkspaceIdle /\ SpinnerIdle
SpecOracle == InitOracle /\ [][OracleNext]_vars

InitSpinner ==
    SpinnerInit /\ ToolInit /\ MemIdle /\ PlanIdle /\ MainIdle /\ ProgressIdle
    /\ SubstIdle /\ OracleIdle /\ ModeIdle /\ WorkspaceIdle
SpecSpinner == InitSpinner /\ [][SpinnerNext]_vars

----------------------------------------------------------------------------
(* Session memory: claims *)

\* C1: starting from an empty manager and applying add_exchange only, every
\* overflow block add_exchange returns has even length and ends with an
\* assistant message immediately preceded by a user message.
C1_OverflowPairing ==
    (mem_ops = {"add_exchange"} /\ mem_ret.op = "add_exchange" /\ ~mem_ret.isNone) =>
        LET o == mem_ret.val
        IN  /\ Len(o) % 2 = 0
            /\ Len(o) >= 2
            /\ o[Len(o)].role = "assistant"
            /\ o[Len(o) - 1].role = "user"

\* a returned overflow block, from add_exchange calls alone, with messages
\* still retained in the buffer
C1_Witness ==
    /\ mem_ops = {"add_exchange"}
    /\ mem_ret.op = "add_exchange"
    /\ ~mem_ret.isNone
    /\ Len(mem_ret.val) = 2
    /\ Len(recent_messages) = 2
    /\ max_recent_length = 3

\* C2: after every operation has returned, len(recent_messages) is at most
\* max_recent_length.
C2_Bounded == Len(recent_messages) <= max_recent_length

----------------------------------------------------------------------------
(* execute_tool: claims *)

\* C9: execute_tool never raises: every call returns a dict whose status is
\* Success or Error.
C9_NeverRaises ==
    tool_call.made =>
        /\ ~tool_call.result.raised
        /\ tool_call.result.status \in {"Success", "Error"}

\* C10: for a tool name that is not a key of available_tools, execute_tool
\* returns status Error with an output naming the unknown tool, calls no
\* tool function and leaves current_working_directory unchanged.
C10_UnknownTool ==
    (tool_call.made /\ tool_call.tool_name \notin AvailableTools) =>
        /\ ~tool_call.result.raised
        /\ tool_call.result.status = "Error"
        /\ tool_call.result.output = UnknownToolMessage(tool_call.tool_name)
        /\ ~tool_call.result.invoked
        /\ current_working_directory = tool_call.cwd

\* an unknown tool was called after a cd had moved the working directory
C10_Witness ==
    /\ tool_call.made
    /\ tool_call.tool_name = "frobnicate"
    /\ current_working_directory # InitialCwd
    /\ tool_invocations > 0

----------------------------------------------------------------------------
(* execute_plan: claims *)

\* C3: in an approved plan where step k is the first step whose tool
\* invocation returns status Error, execute_plan holds (and returns) exactly
\* k-1 Success results followed by one Error result, with halted = true, and
\* makes no tool invocation after the failed one.
C3_HaltsOnError ==
    LET errors == {c \in 1..Len(plan_calls) :
                      ~plan_calls[c].raised /\ plan_calls[c].status = "Error"}
    IN  errors # {} =>
            LET c == CHOOSE x \in errors : \A y \in errors : x <= y
                k == plan_calls[c].step
            IN  /\ c = Len(plan_calls)
                /\ \A x \in 1..Len(plan_calls) : plan_calls[x].step <= k
                /\ plan_pc \in {"step", "done"}
                /\ plan_halted
                /\ Len(plan_results) = k
                /\ \A j \in 1..(k - 1) : plan_results[j].status = "Success"
                /\ plan_results[k].status = "Error"
                /\ plan_pc = "done" =>
                       /\ plan_ret.returned
                       /\ plan_ret.results = plan_results
                       /\ plan_ret.halted

\* execute_plan has returned after the second step's tool returned Error
C3_Witness ==
    /\ plan_ret.returned
    /\ plan_ret.halted
    /\ Len(plan_ret.results) = 2
    /\ Len(plan_calls) >= 2
    /\ plan_calls[Len(plan_calls)].step = 2
    /\ plan_calls[Len(plan_calls)].status = "Error"
    /\ ~plan_calls[Len(plan_calls)].raised

\* C4: write_file is never invoked for a step without the user having been
\* asked for, and having given, a confirmation for that step, whatever the
\* step's is_critical.
C4_WriteFileConfirmed ==
    \A c \in 1..Len(plan_calls) :
        (plan_calls[c].tool = "write_file" /\ plan_calls[c].invoked) =>
            plan_calls[c].confirmed

\* C5 as stated: once the user declines the confirmation of critical step k,
\* no tool invocation was made for step k or a later step, the Aborted
\* result of step k follows the results of the earlier steps, and halted is
\* true.
C5_DeclineNoTool ==
    \A k \in DOMAIN plan_replies.step :
        plan_replies.step[k] = "no" =>
            /\ \A c \in 1..Len(plan_calls) : plan_calls[c].step < k
            /\ plan_halted
            /\ Len(plan_results) = k
            /\ plan_results[k].status = "Aborted"
            /\ plan_pc = "done" => (plan_ret.returned /\ plan_ret.halted)

\* C5 amended: once the user declines a confirmation of critical step k, no
\* tool invocation is made any more (the only invocations of step k are those
\* the user confirmed before declining), the Aborted result of step k follows
\* the Success results of the earlier steps, and halted is true.
C5_DeclineStops ==
    \A k \in DOMAIN plan_replies.step :
        plan_replies.step[k] = "no" =>
            /\ Len(plan_calls) = plan_replies.declined_calls
            /\ \A c \in 1..Len(plan_calls) :
                   /\ plan_calls[c].step <= k
                   /\ plan_calls[c].step = k => plan_calls[c].confirmed
            /\ plan_halted
            /\ Len(plan_results) = k
            /\ \A j \in 1..(k - 1) : plan_results[j].status = "Success"
            /\ plan_results[k].status = "Aborted"
            /\ plan_pc \in {"step", "done"}
            /\ plan_pc = "done" =>
                   /\ plan_ret.returned
                   /\ plan_ret.results = plan_results
                   /\ plan_ret.halted

\* execute_plan has returned after the user confirmed the first invocation
\* of an expanded critical step and declined the second
C5_Witness ==
    /\ plan_ret.returned
    /\ plan_replies.declined_calls >= 1
    /\ plan_i \in DOMAIN plan_replies.step
    /\ plan_replies.step[plan_i] = "no"
    /\ plan_calls[Len(plan_calls)].step = plan_i
    /\ plan_results[Len(plan_results)].status = "Aborted"

----------------------------------------------------------------------------
(* main: claims *)

\* C6: when the user declines the plan-level approval, execute_plan returns
\* at once the pair (empty results, halted = true) and invokes no tool.
C6_PlanDeclineReturnsPair ==
    plan_replies.plan = "no" =>
        /\ plan_calls = <<>>
        /\ plan_pc = "done"
        /\ plan_ret.returned
        /\ plan_ret.is_pair
        /\ plan_ret.results = <<>>
        /\ plan_ret.halted

\* C7: for one request that yields a plan, main() calls execute_plan at most
\* MAX_REPLAN_ATTEMPTS + 1 times and create_plan at most that often, no
\* exception ends main(), and once the request is over the last entry of
\* history is the final Agent message.
C7_ReplanLoopEnds ==
    /\ main_calls.execute_plan <= MAX_REPLAN_ATTEMPTS + 1
    /\ main_calls.create_plan <= MAX_REPLAN_ATTEMPTS + 1
    /\ main_pc # "crashed"
    /\ (main_pc = "input" /\ main_calls.execute_plan > 0) =>
           history[Len(history)] = "Agent: final_summary"

----------------------------------------------------------------------------
(* analyze_task_progress: claims *)

\* C8: with 3 to 25 recorded actions of which at least 3 of the last 4 have
\* the tool and args of latest_action and a result with status Success,
\* analyze_task_progress returns should_continue = false with a reason that
\* names the repeated tool.
C8_RepetitionStops ==
    LET n == Len(actions_taken)
        latest == progress_ret.latest_action
        repeated == {k \in 1..n :
                        /\ k > n - 4
                        /\ actions_taken[k].tool = latest.tool
                        /\ actions_taken[k].args = latest.args
                        /\ ~actions_taken[k].result.none
                        /\ actions_taken[k].result.status = "Success"}
    IN  (/\ progress_ret.called
         /\ latest # NoAction
         /\ n >= 3 /\ n <= 25
         /\ Cardinality(repeated) >= 3) =>
            /\ ~progress_ret.raised
            /\ ~progress_ret.should_continue
            /\ \E k \in 1..Len(progress_ret.reason.v) :
                   progress_ret.reason.v[k] = latest.tool

----------------------------------------------------------------------------
(* substitute_placeholders: claims *)

\* C11: for an args map none of whose string values contains a pattern
\* <output_of_step_N>, and any step_outputs, substitute_placeholders returns
\* a map equal to args and leaves args itself as it was.
C11_NoPlaceholderIdentity ==
    [][(/\ ~sub_ret.called
        /\ sub_ret'.called
        /\ \A name \in DOMAIN sub_args :
               sub_args[name].t = "str" =>
                   \A k \in 1..Len(sub_args[name].v) :
                       sub_args[name].v[k] \notin PlaceholderSyms)
         => (sub_ret'.val = sub_args /\ sub_args' = sub_args)]_vars

\* a three-piece command with the text "<output_of_step_" but no complete
\* pattern went through substitute_placeholders with two prior outputs
C11_Witness ==
    /\ sub_ret.called
    /\ Len(sub_args["command"].v) = 3
    /\ sub_args["command"].v[1] = s_placeholder_prefix
    /\ \A k \in 1..3 : sub_args["command"].v[k] \notin PlaceholderSyms
    /\ Len(sub_outputs) = 2
    /\ sub_ret.val = sub_args

\* C12: an argument that is exactly one placeholder <output_of_step_N> with
\* a chain of ['key'] lookups, N in range and every key present, is replaced
\* by exactly the value the chain yields on step_outputs[N-1], with its type.
C12_WholeValueExact ==
    LET arg_value == sub_args["command"].v
        matches == FindMatches(arg_value)
    IN  (/\ sub_ret.called
         /\ Len(matches) = 1
         /\ matches[1].full = arg_value
         /\ 1 <= matches[1].n /\ matches[1].n <= Len(sub_outputs)
         /\ EvalChain(sub_outputs[matches[1].n], matches[1].keys).ok) =>
            sub_ret.val["command"] =
                EvalChain(sub_outputs[matches[1].n], matches[1].keys).val

\* C13: a placeholder whose step number is out of range, or whose key chain
\* names a missing key, is still present, unchanged, in the returned
\* argument.
C13_UnresolvedStaysInPlace ==
    LET matches == FindMatches(sub_args["command"].v)
    IN  sub_ret.called =>
            \A k \in 1..Len(matches) :
                (\/ matches[k].n = 0
                 \/ matches[k].n > Len(sub_outputs)
                 \/ ~EvalChain(sub_outputs[matches[k].n], matches[k].keys).ok) =>
                    /\ sub_ret.val["command"].t = "str"
                    /\ Contains(sub_ret.val["command"].v, matches[k].full)

----------------------------------------------------------------------------
(* execute_tool and the working directory: claims *)

\* C14: for a run_shell_command whose stripped command starts with "cd ",
\* execute_tool calls no tool function; when the target, joined to
\* current_working_directory if relative and normalized, is a directory,
\* current_working_directory becomes it and the status is Success; otherwise
\* current_working_directory is unchanged and the status is Error.
C14_CdIntercepted ==
    (/\ tool_call.made
     /\ tool_call.tool_name = "run_shell_command"
     /\ "command" \in DOMAIN tool_call.tool_args
     /\ tool_call.tool_args["command"].t = "str"
     /\ StartsWith(Strip(tool_call.tool_args["command"].v), s_cd)) =>
        LET parsed == ShlexSplit(Strip(Drop(Strip(tool_call.tool_args["command"].v), 3)))
            target == IF IsAbs(parsed.tokens[1]) THEN NormPath(parsed.tokens[1])
                      ELSE NormPath(PathJoin(tool_call.cwd, parsed.tokens[1]))
        IN  /\ ~tool_call.result.invoked
            /\ ~tool_call.result.raised
            /\ IF parsed.ok /\ Len(parsed.tokens) > 0 /\ IsDir(target)
               THEN /\ current_working_directory = target
                    /\ tool_call.result.status = "Success"
               ELSE /\ current_working_directory = tool_call.cwd
                    /\ tool_call.result.status = "Error"

\* C15: once a cd has moved current_working_directory to D, every later
\* tool invocation through execute_tool that takes a relative file argument
\* resolves it against D, not against the directory the process started in.
C15_ResolvedAgainstCwd ==
    (/\ tool_call.made
     /\ tool_call.result.invoked
     /\ tool_call.tool_name \in
            {"run_shell_command", "list_directory", "read_text_file", "write_file"}
     /\ tool_call.cwd # InitialCwd) =>
        ResolveBase(tool_call.tool_name, tool_call.result.args) = tool_call.cwd

----------------------------------------------------------------------------
(* think and reflexion: claims *)

\* the LLM call raised, gave no content, or gave a text json.loads rejects
OracleFailed(completion) ==
    \/ completion.raises
    \/ completion.none
    \/ ~JsonLoads(completion.content).ok

\* C16: a failure of the LLM call or of parsing its response inside think
\* or reflexion never leaves the function: think returns a decision with a
\* text key, reflexion returns decision 'error' with a comment.
C16_OracleFailureCaught ==
    (/\ oracle_ret.called
     /\ oracle_ret.fn \in {"think", "reflexion"}
     /\ OracleFailed(oracle_ret.completion)) =>
        /\ ~oracle_ret.raised
        /\ oracle_ret.val.t = "dict"
        /\ oracle_ret.fn = "think" => "text" \in DOMAIN oracle_ret.val.v
        /\ oracle_ret.fn = "reflexion" =>
               /\ "decision" \in DOMAIN oracle_ret.val.v
               /\ oracle_ret.val.v["decision"] = Str(<<"error">>)
               /\ "comment" \in DOMAIN oracle_ret.val.v

\* think was given a text that is not JSON and returned its apology
C16_Witness ==
    /\ oracle_ret.called
    /\ oracle_ret.fn = "think"
    /\ oracle_ret.completion = Content(<<"sorry">>)
    /\ oracle_ret.val = ThinkFailure.val
    /\ ~oracle_ret.raised

\* C17: what reflexion returns has decision in {continue, finish, error},
\* with next_action when it is continue; what think returns has a text key
\* or both action and original_user_request.
C17_SchemaValidated ==
    (oracle_ret.called /\ ~oracle_ret.raised) =>
        /\ oracle_ret.val.t = "dict"
        /\ oracle_ret.fn = "reflexion" =>
               /\ "decision" \in DOMAIN oracle_ret.val.v
               /\ oracle_ret.val.v["decision"] \in
                      {Str(<<"continue">>), Str(<<"finish">>), Str(<<"error">>)}
               /\ oracle_ret.val.v["decision"] = Str(<<"continue">>) =>
                      "next_action" \in DOMAIN oracle_ret.val.v
        /\ oracle_ret.fn = "think" =>
               \/ "text" \in DOMAIN oracle_ret.val.v
               \/ /\ "action" \in DOMAIN oracle_ret.val.v
                  /\ "original_user_request" \in DOMAIN oracle_ret.val.v

----------------------------------------------------------------------------
(* Session memory and tool-execution mode: claims *)

\* C18: while the tool-execution mode flag is set, no add operation evicts
\* messages: what recent_messages held before an add is still there, in
\* place, after it.
C18_NoEvictionInToolMode ==
    [][(tool_execution_mode /\ mem_ret'.op # "clear_session") =>
           /\ Len(recent_messages') >= Len(recent_messages)
           /\ \A k \in 1..Len(recent_messages) :
                  recent_messages'[k] = recent_messages[k]]_vars

\* C19: whatever mix of add_exchange, add_legacy_message and
\* add_single_message ran before, an overflow block that add_exchange or
\* add_legacy_message returns does not end with a user message.
C19_OverflowNotEndingWithUser ==
    (/\ mem_ret.op \in {"add_exchange", "add_legacy_message"}
     /\ ~mem_ret.isNone
     /\ Len(mem_ret.val) > 0) =>
        mem_ret.val[Len(mem_ret.val)].role # "user"

----------------------------------------------------------------------------
(* main and a declined plan: claims *)

\* C20: once the user has declined the plan or a critical step, the request
\* ends cleanly: from then on no exception ends main(), create_plan is not
\* called again and no tool is invoked for that request.
C20_DeclineEndsRequest ==
    [][(Declined(plan_replies) \/ main_calls.declined) =>
           /\ main_pc' # "crashed"
           /\ main_calls'.create_plan <= main_calls.create_plan
           /\ Len(plan_calls') <= Len(plan_calls)]_vars

----------------------------------------------------------------------------
(* WorkspaceAwareEngine: claims *)

\* C21: in every workspace, active or saved, there are no more observations
\* than actions and the i-th observation is the one of the i-th action.
C21_ObservationsAligned ==
    \A t \in DOMAIN active_workspaces :
        LET w == active_workspaces[t]
        IN  /\ Len(w.observations) <= Len(w.actions_taken)
            /\ \A i \in 1..Len(w.observations) :
                   w.observations[i].action_id = w.actions_taken[i].action_id

----------------------------------------------------------------------------
(* Session memory, clear_session and the view for the model: claims *)

\* C22: clear_session returns the messages that were in recent_messages, in
\* insertion order, and leaves the buffer empty, so that the view for the
\* model is then empty; get_recent_messages_for_ai leaves the buffer as it
\* is and returns one {role, content} entry per message, in order.
C22_ClearAndView ==
    [][/\ mem_ret'.op = "clear_session" =>
              /\ mem_ret'.val = recent_messages
              /\ \A i, j \in 1..Len(mem_ret'.val) :
                     i < j => mem_ret'.val[i].message_id < mem_ret'.val[j].message_id
              /\ recent_messages' = <<>>
              /\ RecentMessagesForAi(recent_messages') = <<>>
       /\ mem_ret'.op = "get_recent_messages_for_ai" =>
              /\ recent_messages' = recent_messages
              /\ Len(mem_ret'.val) = Len(recent_messages)
              /\ \A k \in 1..Len(recent_messages) :
                     /\ mem_ret'.val[k].role = recent_messages[k].role
                     /\ mem_ret'.val[k].content = recent_messages[k].content
                     /\ DOMAIN mem_ret'.val[k] = {"role", "content"}]_vars

\* clear_session has just returned a buffer of three messages
C22_Witness ==
    /\ mem_ret.op = "clear_session"
    /\ Len(mem_ret.val) = 3
    /\ recent_messages = <<>>

----------------------------------------------------------------------------
(* verify_agent_plan: claims *)

\* the verifier call raised, or its content is not JSON, or the JSON has no
\* decision among APPROVE, DECLINE and CONFIRM_CRITICAL
VerifierFailed(completion) ==
    \/ OracleFailed(completion)
    \/ JsonLoads(completion.content).val.t # "dict"
    \/ "decision" \notin DOMAIN JsonLoads(completion.content).val.v
    \/ JsonLoads(completion.content).val.v["decision"] \notin VerifierDecisions

\* C23: whenever the verifier fails, verify_agent_plan does not raise and
\* returns a dict whose decision is CONFIRM_CRITICAL.
C23_VerifierFailsSafe ==
    (/\ oracle_ret.called
     /\ oracle_ret.fn = "verify_agent_plan"
     /\ VerifierFailed(oracle_ret.completion)) =>
        /\ ~oracle_ret.raised
        /\ oracle_ret.val.t = "dict"
        /\ "decision" \in DOMAIN oracle_ret.val.v
        /\ oracle_ret.val.v["decision"] = Str(<<"CONFIRM_CRITICAL">>)

----------------------------------------------------------------------------
(* add_single_message: claims *)

\* C24: when add_single_message makes the buffer exceed max_recent_length it
\* returns the list of the messages it evicted, and None when nothing was
\* evicted.
C24_EvictedReturned ==
    [][ (mem_ret'.op = "add_single_message" /\ message_count' = message_count + 1) =>
            LET n == Len(recent_messages) + 1 - Len(recent_messages')
            IN  IF Len(recent_messages) + 1 > max_recent_length
                THEN /\ ~mem_ret'.isNone
                     /\ Len(mem_ret'.val) = n
                     /\ \A k \in 1..n :
                            k <= Len(recent_messages) =>
                                mem_ret'.val[k] = recent_messages[k]
                ELSE mem_ret'.isNone ]_vars

----------------------------------------------------------------------------
(* substitute_placeholders, several placeholders in one string: claims *)

\* the placeholder of matches[k] is in range and its key chain evaluates
Resolvable(m, outputs) ==
    /\ 0 < m.n /\ m.n <= Len(outputs)
    /\ EvalChain(outputs[m.n], m.keys).ok

\* C25: a string argument that embeds two or more placeholders, all of them
\* resolvable, comes back as a string in which none of the texts
\* <output_of_step_N> is left.
C25_AllEmbeddedReplaced ==
    LET matches == FindMatches(sub_args["command"].v)
    IN  (/\ sub_ret.called
         /\ Len(matches) >= 2
         /\ \A k \in 1..Len(matches) : Resolvable(matches[k], sub_outputs)) =>
            /\ sub_ret.val["command"].t = "str"
            /\ \A k \in 1..Len(sub_ret.val["command"].v) :
                   sub_ret.val["command"].v[k] \notin PlaceholderSyms

----------------------------------------------------------------------------
(* execute_plan, expandable steps: claims *)

\* the argument a tool's step expands on: "command" of run_shell_command,
\* "image_path" of classify_image, "" for the other tools
Designated(tool) ==
    CASE tool = "run_shell_command" -> "command"
      [] tool = "classify_image" -> "image_path"
      [] OTHER -> ""

\* the step being processed has a designated argument that resolved to a
\* list
ExpandsOnList ==
    /\ plan_step # NoStep
    /\ Designated(plan_step.tool) \in DOMAIN plan_step.args
    /\ SubstitutePlaceholders(plan_step.args, step_outputs)
           [Designated(plan_step.tool)].t = "list"

\* the list the designated argument of the step being processed resolved to
ExpansionList ==
    SubstitutePlaceholders(plan_step.args, step_outputs)[Designated(plan_step.tool)].v

\* the execute_tool calls made for step i
CallsOfStep(calls, i) == SelectSeq(calls, LAMBDA c : c.step = i)

\* C26: a step whose designated argument resolved to a list of N >= 1 items
\* fans out into one invocation per item, in list order, and when all of
\* them succeed the step adds one Success result whose output is the list
\* of the N outputs.
C26_ListFansOut ==
    /\ [](ExpandsOnList /\ Len(ExpansionList) >= 1 =>
             /\ Len(step_output_collector) + Len(args_to_process) = Len(ExpansionList)
             /\ \A k \in 1..Len(args_to_process) :
                    args_to_process[k][Designated(plan_step.tool)] =
                        ExpansionList[Len(step_output_collector) + k])
    /\ [][(/\ ExpandsOnList /\ Len(ExpansionList) >= 1
            /\ plan_pc = "item" /\ Len(args_to_process) = 0
            /\ plan_step' = NoStep) =>
               /\ Len(CallsOfStep(plan_calls, plan_i)) = Len(ExpansionList)
               /\ Len(plan_results') = Len(plan_results) + 1
               /\ plan_results'[Len(plan_results')].status = "Success"
               /\ plan_results'[Len(plan_results')].output.t = "list"
               /\ Len(plan_results'[Len(plan_results')].output.v) = Len(ExpansionList)]_vars

----------------------------------------------------------------------------
(* execute_plan, the halted flag: claims *)

\* C27: execute_plan returns halted = false only when every step of the plan
\* was executed and has a Success result, so that there are as many results
\* as steps; a plan a failed checkpoint stopped early is returned with
\* halted = true.
C27_HaltedUnlessComplete ==
    (plan_ret.returned /\ plan_ret.is_pair /\ ~plan_ret.halted) =>
        /\ Len(plan_ret.results) = plan_len
        /\ \A k \in 1..Len(plan_ret.results) : plan_ret.results[k].status = "Success"

----------------------------------------------------------------------------
(* execute_plan, step_outputs: claims *)

\* the outputs execute_tool returned for step j, consolidated as the step
\* consolidates them
ConsolidatedOutput(calls, j) ==
    LET cs == CallsOfStep(calls, j)
    IN  FinalOutput([k \in 1..Len(cs) |-> cs[k].output])

\* the value a placeholder with key chain keys takes from a step's output
ResolvedFrom(output, keys) ==
    LET val == EvalChain(output, keys).val
    IN  IF val.t = "dict" /\ "result" \in DOMAIN val.v THEN val.v["result"] ELSE val

\* step k is about to be processed, or is being processed
AtStep(k) ==
    /\ plan_i = k
    /\ \/ plan_pc = "step" /\ ~plan_halted /\ k <= plan_len
       \/ plan_pc \in {"item", "confirm", "invoke"}

----------------------------------------------------------------------------
(* add_exchange and add_legacy_message, nothing lost: claims *)

\* C29: every call of add_exchange or add_legacy_message hands over or keeps
\* each message exactly once and in insertion order: the block it returns,
\* followed by recent_messages after the call, is recent_messages before the
\* call followed by the messages the call added. By induction over the
\* calls, the blocks returned so far followed by recent_messages are all the
\* messages added. While only these two operations have been used, the
\* buffer holds the newest messages, oldest first, without a gap.
C29_NothingLost ==
    /\ [][(/\ mem_ret'.op \in {"add_exchange", "add_legacy_message"}
            /\ message_count' > message_count) =>
               LET all == mem_ret'.val \o recent_messages'
                   old == Len(recent_messages)
                   n == message_count' - message_count
               IN  /\ Len(all) = old + n
                   /\ SubSeq(all, 1, old) = recent_messages
                   /\ \A k \in 1..n : all[old + k].message_id = message_count + k - 1
                   /\ mem_ret'.op = "add_exchange" =>
                          all[old + 1].role = "user" /\ all[old + 2].role = "assistant"]_vars
    /\ [](mem_ops \subseteq {"add_exchange", "add_legacy_message"} =>
             \A k \in 1..Len(recent_messages) :
                 recent_messages[k].message_id =
                     message_count - Len(recent_messages) + k - 1)

\* add_exchange evicted three messages, moved the last of them, a user
\* message, back to the front of the buffer and returned the other two
C29_Witness ==
    /\ mem_ops = {"add_exchange", "add_legacy_message"}
    /\ mem_ret.op = "add_exchange"
    /\ Len(mem_ret.val) = 2
    /\ Len(recent_messages) = 3
    /\ recent_messages[1].role = "user"
    /\ recent_messages[2].role = "user"
    /\ message_count = 5

----------------------------------------------------------------------------
(* analyze_task_progress, information gathering: claims *)

\* tools that only read
InformationTools == {"list_directory", "read_text_file", "describe_image"}

\* tools that change files or run commands
StateChangingTools == {"write_file", "run_shell_command"}

\* C30: when at least 4 of the last 5 recorded actions used a tool that only
\* reads and none of the 5 used a state-changing tool, analyze_task_progress
\* returns should_continue = false.
C30_InformationGatheringStops ==
    LET last == LastN(actions_taken, 5)
    IN  (/\ progress_ret.called
         /\ Len(actions_taken) >= 5
         /\ Cardinality({k \in 1..5 : last[k].tool \in InformationTools}) >= 4
         /\ \A k \in 1..5 : last[k].tool \notin StateChangingTools) =>
            /\ ~progress_ret.raised
            /\ ~progress_ret.should_continue

----------------------------------------------------------------------------
(* analyze_task_progress, totality and the safety valve: claims *)

\* C31: analyze_task_progress never raises: for every task memory think and
\* record_action_result have produced, also one with actions whose result is
\* still None, it returns a dict with should_continue and a reason.
C31_AnalyzeNeverRaises ==
    progress_ret.called =>
        /\ ~progress_ret.raised
        /\ progress_ret.should_continue \in BOOLEAN
        /\ progress_ret.reason.t = "str"
        /\ Len(progress_ret.reason.v) > 0

\* C32: whatever the recorded actions and their results are, once more than
\* 25 actions are recorded analyze_task_progress returns should_continue =
\* false.
C32_SafetyValve ==
    (progress_ret.called /\ Len(actions_taken) > 25) =>
        /\ ~progress_ret.raised
        /\ ~progress_ret.should_continue

\* 26 recorded actions, the last of them not completed and the same as the
\* latest action, and the answer was to stop
C32_Witness ==
    /\ progress_ret.called
    /\ Len(actions_taken) = 26
    /\ actions_taken[26].result.none
    /\ actions_taken[26].tool = progress_ret.latest_action.tool
    /\ actions_taken[26].args = progress_ret.latest_action.args
    /\ ~progress_ret.should_continue

----------------------------------------------------------------------------
(* WorkspaceAwareEngine, finish: claims *)

\* C33: once reflexion_with_workspace has processed a finish decision for a
\* task whose workspace exists, the workspace saved on disk has
\* progress_state completed and the task is not among the manager's active
\* workspaces.
C33_FinishedIsClosed ==
    [][\A t \in 1..(MaxTasks + 1) :
          (/\ reflexion_with_workspace(t, "finish")
           /\ t \in DOMAIN active_workspaces \cup DOMAIN storage) =>
              /\ t \in DOMAIN storage'
              /\ storage'[t].progress_state = "completed"
              /\ t \notin DOMAIN active_workspaces']_vars

----------------------------------------------------------------------------
(* WorkspaceAwareEngine, progress_state: claims *)

\* the values of the progress_state enum
ProgressStates ==
    {"initialized", "executing", "waiting_for_next_step", "planning_next_action",
     "completed", "failed", "error"}

\* the progress_state of task t: of the workspace in memory, else of the
\* one saved on disk
ProgressStateOf(active, disk, t) ==
    IF t \in DOMAIN active THEN active[t].progress_state ELSE disk[t].progress_state

\* C34: progress_state is always one of the seven values of the enum, and
\* each engine operation leaves it as follows. think_with_workspace:
\* completed when no tools are needed, failed when the task cannot be
\* completed, executing when an action is proposed, error on an exception.
\* record_action_result: waiting_for_next_step. reflexion_with_workspace:
\* completed on finish, planning_next_action on continue, error otherwise.
C34_ProgressStateByOperation ==
    /\ [](/\ \A x \in DOMAIN active_workspaces :
                 active_workspaces[x].progress_state \in ProgressStates
           /\ \A y \in DOMAIN storage : storage[y].progress_state \in ProgressStates)
    /\ [][/\ \A t \in 0..(MaxTasks + 1), p1 \in Phase1Outcomes, p2 \in Phase2Outcomes :
                (think_with_workspace(t, p1, p2) /\ ~ws_ret'.raised) =>
                    ProgressStateOf(active_workspaces', storage',
                                    IF t = 0 THEN task_count' ELSE t) =
                        CASE p1 = "no_tools" -> "completed"
                          [] p1 = "needs_tools" /\ p2 = "cannot_complete" -> "failed"
                          [] p1 = "needs_tools" /\ p2 = "action" -> "executing"
                          [] OTHER -> "error"
          /\ \A st \in {"Success", "Error"}, o \in WsOutputs :
                (/\ record_action_result(st, o)
                 /\ pending_action.task_id \in DOMAIN active_workspaces \cup DOMAIN storage) =>
                    ProgressStateOf(active_workspaces', storage',
                                    pending_action.task_id) = "waiting_for_next_step"
          /\ \A t \in 1..(MaxTasks + 1), o \in ReflexionOutcomes :
                (/\ reflexion_with_workspace(t, o)
                 /\ t \in DOMAIN active_workspaces \cup DOMAIN storage) =>
                    ProgressStateOf(active_workspaces', storage', t) =
                        CASE o = "finish" -> "completed"
                          [] o \in {"continue", "continue_action"} ->
                                 "planning_next_action"
                          [] OTHER -> "error"]_vars

----------------------------------------------------------------------------
(* Workspace persistence: claims *)

\* the fields of a workspace that persistence is to preserve
SameWorkspace(a, b) ==
    /\ a.task_id = b.task_id
    /\ a.original_request = b.original_request
    /\ a.current_goal = b.current_goal
    /\ a.actions_taken = b.actions_taken
    /\ a.observations = b.observations
    /\ a.knowledge = b.knowledge
    /\ a.progress_state = b.progress_state
    /\ a.next_steps = b.next_steps

----------------------------------------------------------------------------
(* The spinner: claims *)

\* C36: in every interleaving of the spinner thread with its caller, once
\* stop() has returned after a start(), the thread that start() made has
\* terminated, and nothing is written to stdout until the next start().
C36_StoppedIsJoined ==
    /\ [](sp_caller = "stopped" =>
             \A k \in DOMAIN sp_threads : sp_threads[k].pc = "done")
    /\ [][sp_caller = "stopped" => sp_stdout' = sp_stdout]_vars

\* stop() has returned for the second start(), whose thread had drawn a
\* frame and had read the flag as set once more when stop() cleared it
C36_Witness ==
    /\ sp_caller = "stopped"
    /\ sp_thread = 2
    /\ sp_threads[2].frames = 1
    /\ sp_threads[1].frames = 0
    /\ sp_stdout = 3

----------------------------------------------------------------------------
(* execute_plan: the spinner around a tool invocation *)

\* C37: when execute_plan has returned, or an exception has left it, the
\* spinner it started around the tool invocation has been stopped: no
\* spinner is left running when the tool invocation raises.
C37_SpinnerStopped ==
    plan_pc \in {"done", "raised"} => ~spinner_running

----------------------------------------------------------------------------
(* execute_tool: the caller's arguments *)

\* C38: execute_tool leaves the args map it is given as it was: after the
\* call the map has the keys and values it had before, for every tool,
\* run_shell_command included.
C38_ArgsUnchanged ==
    tool_call.made => tool_call.result.args = tool_call.tool_args

----------------------------------------------------------------------------
(* execute_plan: the prompts *)

----------------------------------------------------------------------------
(* Session memory: message ids and the message count *)

\* C40: in every state the message_id values of recent_messages increase
\* strictly from oldest to newest and lie below message_count; message_count
\* goes down only by clear_session, which makes it 0, and every other
\* operation raises it by the number of messages it adds: two for
\* add_exchange, one for add_single_message and add_legacy_message, none for
\* a read.
C40_IdsIncreaseCountExact ==
    /\ [](/\ \A k \in 1..(Len(recent_messages) - 1) :
                  recent_messages[k].message_id < recent_messages[k + 1].message_id
          /\ \A k \in DOMAIN recent_messages :
                  recent_messages[k].message_id < message_count
          /\ recent_messages # <<>> =>
                  recent_messages[Len(recent_messages)].message_id = message_count - 1)
    /\ [][/\ (\E user_msg \in Contents, ai_msg \in AiContents :
                  AddExchange(user_msg, ai_msg)) =>
                 message_count' = message_count + 2
          /\ (\E role \in Roles, content \in SingleContents :
                  AddSingleMessage(role, content)) =>
                 message_count' = message_count + 1
          /\ (\E role \in LegacyRoles, content \in LegacyContents :
                  AddLegacyMessage(role, content)) =>
                 message_count' = message_count + 1
          /\ GetRecentMessagesForAi => message_count' = message_count
          /\ message_count' < message_count =>
                 (ClearSession /\ message_count' = 0)]_vars

\* in the second session of a manager, after overflows, the buffer holds
\* several messages whose oldest is not the session's first
C40_Witness ==
    /\ "clear_session" \in mem_ops
    /\ mem_ret.op = "add_legacy_message"
    /\ ~mem_ret.isNone
    /\ Len(recent_messages) >= 2
    /\ recent_messages[1].message_id > 0
    /\ recent_messages[1].role = "user"
    /\ message_count = recent_messages[Len(recent_messages)].message_id + 1

====
